---- MODULE Spec2Model ----
(***************************************************************************)
(* Verification model of the learning-langgraph demonstration scripts.     *)
(*                                                                         *)
(* Part I   src/faropoint_api.py : the in-memory job tracker, its          *)
(*          background task and the polling server-sent-events stream.     *)
(*                                                                         *)
(* Python's None is written <<>> and a present value v is written <<v>>,   *)
(* so that an optional field always holds a sequence.                      *)
(***************************************************************************)
EXTENDS Integers, Sequences, FiniteSets, TLC

\* ------------------------------------------------------------------ bounds
MaxJobs == 1
MaxIterations == 2

\* ---------------------------------------------------------------- helpers
None == <<>>
Some(v) == <<v>>
Last(s) == s[Len(s)]

\* the state of src/faropoint_api.py
VARIABLES
    research_jobs,   \* job id -> job record; its DOMAIN is the set of tracked ids
    task,            \* job id -> the background task run_tenant_research of the job
    stream,          \* one call of research_progress_stream and its generator
    response         \* what the step just taken returned, when that step was a
                     \* get_research_status call (NoResponse after any other step)

\* the state of a run of the graph of src/company_research_demo.py
VARIABLES
    cr,        \* the CompanyResearchState record flowing through the graph
    cr_node,   \* the node the graph runs next: a node name, "END", "raised"
               \* (graph.invoke raised) or "idle" (no run)
    cr_trace   \* the nodes executed so far, in order

\* the state of a run of the graph of src/research_assistant.py
VARIABLES
    ra,        \* the ResearchState record flowing through the graph
    ra_node,   \* the node the graph runs next, "END", "raised" or "idle"
    ra_trace   \* the nodes executed so far, each with the content the LLM
               \* answered to it (None where the node keeps no answer)

\* the state of a run of the graph of src/faropoint_tenant_research.py
VARIABLES
    lv,          \* the TenantResearchState record flowing through the graph
    lv_node,     \* the node the graph runs next, "END", "raised" or "idle"
    lv_trace,    \* the nodes executed so far, in order
    lv_appended  \* the messages the node executed last appended

\* the state of the runs of the graph of src/faropoint_tenant_demo.py
VARIABLES
    td,                 \* the TenantResearchState record flowing through the graph
    td_node,            \* the node the graph runs next, "END" or "idle"
    td_trace,           \* the nodes the current run executed so far, in order
    td_runs,            \* the number of graph.invoke calls made so far
    demo_risk_factors   \* company -> the risk_factors list DEMO_COMPANY_DATA
                        \* holds for it now: the one list of the table a node
                        \* holds a reference to and appends to

\* the state of a run of the graph of src/customer_support_bot.py
VARIABLES
    sb,        \* the SupportState record flowing through the graph
    sb_node,   \* the node the graph runs next, "END" or "idle"
    sb_trace   \* the nodes executed so far, in order

\* the state of a run of the graph of src/company_research_system.py
VARIABLES
    cs,         \* the CompanyResearchState the channels hold: what every node
                \* of the step under way was handed
    cs_status,  \* "running", "END", "raised" (graph.invoke raised) or "idle"
    cs_tasks,   \* the nodes of the step under way that have not run yet
    cs_done,    \* the nodes of the step under way that have returned
    cs_trace    \* the nodes executed so far, in order

apiVars == <<research_jobs, task, stream, response>>
systemVars == <<cs, cs_status, cs_tasks, cs_done, cs_trace>>
supportVars == <<sb, sb_node, sb_trace>>
demoVars == <<td, td_node, td_trace, td_runs, demo_risk_factors>>
companyVars == <<cr, cr_node, cr_trace>>
assistantVars == <<ra, ra_node, ra_trace>>
liveVars == <<lv, lv_node, lv_trace, lv_appended>>

\* what each part leaves alone
notApi == <<companyVars, assistantVars, liveVars, demoVars, supportVars,
    systemVars>>
notCompany == <<apiVars, assistantVars, liveVars, demoVars, supportVars,
    systemVars>>
notAssistant == <<apiVars, companyVars, liveVars, demoVars, supportVars,
    systemVars>>
notLive == <<apiVars, companyVars, assistantVars, demoVars, supportVars,
    systemVars>>
notDemo == <<apiVars, companyVars, assistantVars, liveVars, supportVars,
    systemVars>>
notSupport == <<apiVars, companyVars, assistantVars, liveVars, demoVars,
    systemVars>>
notSystem == <<apiVars, companyVars, assistantVars, liveVars, demoVars,
    supportVars>>

\* ===================================================== Part I: the API ===
JobIds == 1..MaxJobs
\* an id no start_research call ever returns (a client may ask for any string)
UnknownId == MaxJobs + 1

\* the request bodies the model posts (ResearchRequest.companyName, .location)
CompanyNames == {"Blue Bottle Coffee", "Corner Shop"}
Locations == {"Oakland, CA"}

\* the eight (step_id, step_name) pairs of run_tenant_research
steps == <<
    [stepId |-> "identify",    stepName |-> "Company Identification"],
    [stepId |-> "online",      stepName |-> "Online Presence Analysis"],
    [stepId |-> "verify",      stepName |-> "Business Verification"],
    [stepId |-> "financial",   stepName |-> "Financial Indicators"],
    [stepId |-> "real_estate", stepName |-> "Real Estate History"],
    [stepId |-> "risk",        stepName |-> "Risk Assessment"],
    [stepId |-> "score",       stepName |-> "Tenant Scoring"],
    [stepId |-> "report",      stepName |-> "Report Generation"] >>

\* the ids returned by start_research so far
issued == {j \in JobIds : task[j].pc # "none"}

\* progress_update as appended to job["progress"] (the timestamp is left out)
progress_update(i) ==
    [stepId |-> steps[i].stepId, stepName |-> steps[i].stepName, status |-> "active"]

\* the mock result run_tenant_research builds; scores are in thousandths
\* (overallScore 75.5 is 75500)
mock_result(company_name, location) ==
    [companyName |-> company_name,
     location |-> location,
     industry |-> "Technology",
     recommendation |-> "Recommended",
     overallScore |-> 75500,
     scores |-> [stability |-> 820, growth |-> 680, risk |-> 250, reputation |-> 850],
     confidenceLevel |-> 850,
     dataSources |-> 6]

\* json.dumps: the text the stream sends, kept as a tagged copy of the value
json_dumps(v) == [json |-> v]

SetJob(j, rec) ==
    [k \in DOMAIN research_jobs \cup {j} |-> IF k = j THEN rec ELSE research_jobs[k]]

NoResponse == [job_id |-> UnknownId, error |-> None, body |-> None]

InitApi ==
    /\ research_jobs = [k \in {} |-> None]
    /\ task = [j \in JobIds |-> [pc |-> "none", i |-> 0,
                                company_name |-> "", location |-> ""]]
    /\ stream = [pc |-> "unopened", job_id |-> UnknownId, events |-> <<>>]
    /\ response = NoResponse

\* POST /api/research: makes a fresh id, queues the background task, answers
start_research(j, company_name, location) ==
    /\ task[j].pc = "none"
    /\ \A k \in JobIds : k < j => task[k].pc # "none"
    /\ task' = [task EXCEPT ![j] = [pc |-> "queued", i |-> 0,
                                    company_name |-> company_name,
                                    location |-> location]]
    /\ response' = NoResponse
    /\ UNCHANGED <<research_jobs, stream, notApi>>

\* run_tenant_research from its start to its first await: the job entry is
\* created and the first step is appended as active
run_tenant_research_begin(j) ==
    /\ task[j].pc = "queued"
    /\ research_jobs' = SetJob(j, [status |-> "running",
                                   progress |-> <<progress_update(1)>>,
                                   result |-> None,
                                   error |-> None])
    /\ task' = [task EXCEPT ![j].pc = "sleep", ![j].i = 1]
    /\ response' = NoResponse
    /\ UNCHANGED <<stream, notApi>>

\* mutant: the step is marked completed on a copy, not on the list's entry
job_after_sleep_unmarked(job, i, company_name, location) ==
    IF i < Len(steps)
    THEN [job EXCEPT !.progress = Append(@, progress_update(i + 1))]
    ELSE [job EXCEPT !.status = "completed",
                     !.result = Some(mock_result(company_name, location))]

\* mutant: the status is set but the result is not stored with it
job_after_sleep_no_result(job, i, company_name, location) ==
    LET marked == [job EXCEPT !.progress[i].status = "completed"]
    IN  IF i < Len(steps)
        THEN [marked EXCEPT !.progress = Append(@, progress_update(i + 1))]
        ELSE [marked EXCEPT !.status = "completed"]

\* a task that, the last step completed, enters the first step once more
job_after_sleep_restarting(job, i, company_name, location) ==
    LET marked == [job EXCEPT !.progress[i].status = "completed"]
    IN  IF i < Len(steps)
        THEN [marked EXCEPT !.progress = Append(@, progress_update(i + 1))]
        ELSE [marked EXCEPT !.progress = Append(@, progress_update(1)),
                            !.status = "completed",
                            !.result = Some(mock_result(company_name, location))]

\* the job record after the loop body resumes from asyncio.sleep(2) at step i:
\* the step is marked completed, then either the next step is appended or the
\* loop ends and the result is stored
job_after_sleep(job, i, company_name, location) ==
    LET marked == [job EXCEPT !.progress[i].status = "completed"]
    IN  IF i < Len(steps)
        THEN [marked EXCEPT !.progress = Append(@, progress_update(i + 1))]
        ELSE [marked EXCEPT !.status = "completed",
                            !.result = Some(mock_result(company_name, location))]

run_tenant_research_resume(j) ==
    /\ task[j].pc = "sleep"
    /\ research_jobs' = SetJob(j, job_after_sleep(research_jobs[j], task[j].i,
                                   task[j].company_name, task[j].location))
    /\ task' = IF task[j].i < Len(steps)
               THEN [task EXCEPT ![j].i = @ + 1]
               ELSE [task EXCEPT ![j].pc = "done"]
    /\ response' = NoResponse
    /\ UNCHANGED <<stream, notApi>>

\* the dict get_research_status returns for job_id
status_of(job_id) ==
    IF job_id \notin DOMAIN research_jobs
    THEN [job_id |-> job_id, error |-> Some("Job not found"), body |-> None]
    ELSE [job_id |-> job_id, error |-> None,
          body |-> Some([jobId |-> job_id,
                         status |-> research_jobs[job_id].status,
                         progress |-> research_jobs[job_id].progress,
                         result |-> research_jobs[job_id].result,
                         error |-> research_jobs[job_id].error])]

\* mutant: an unknown job is entered into research_jobs by the lookup
get_research_status_setdefault(job_id) ==
    /\ research_jobs' = IF job_id \in DOMAIN research_jobs THEN research_jobs
                        ELSE SetJob(job_id, [status |-> "running", progress |-> <<>>,
                                             result |-> None, error |-> None])
    /\ response' = status_of(job_id)
    /\ UNCHANGED <<task, stream, notApi>>

\* GET /api/research/{job_id}
get_research_status(job_id) ==
    /\ response' = status_of(job_id)
    /\ UNCHANGED <<research_jobs, task, stream, notApi>>

\* GET /api/research/{job_id}/progress: the generator is created, not yet run
research_progress_stream(job_id) ==
    /\ stream.pc = "unopened"
    /\ stream' = [pc |-> "poll", job_id |-> job_id, events |-> <<>>]
    /\ response' = NoResponse
    /\ UNCHANGED <<research_jobs, task, notApi>>

Event(kind, data) == [event |-> kind, data |-> data]

\* what the generator yields. The generator re-sends the latest progress entry
\* on every poll; events keeps an immediate repetition of one 'progress' event
\* once, and every other event as often as it is sent
Emit(events, e) ==
    IF /\ e.event = "progress"
       /\ Len(events) > 0
       /\ Last(events).event = "progress"
       /\ Last(events).data = e.data
    THEN events
    ELSE Append(events, e)

\* mutant: no break after the 'complete' event
stream_after_check_no_break(st) ==
    LET job == research_jobs[st.job_id]
    IN  IF job.status = "completed"
        THEN [st EXCEPT !.events = Emit(@, Event("complete", json_dumps(job.result))),
                        !.pc = "poll"]
        ELSE [st EXCEPT !.pc = "poll"]

\* the part of one loop pass from "Check if completed" on: the stream after it
stream_after_check(st) ==
    LET job == research_jobs[st.job_id]
    IN  IF job.status = "completed"
        THEN [st EXCEPT !.events = Emit(@, Event("complete", json_dumps(job.result))),
                        !.pc = "done"]
        ELSE IF job.status = "failed"
        THEN [st EXCEPT !.events = Emit(@, Event("error",
                                          json_dumps([message |-> job.error[1]]))),
                        !.pc = "done"]
        ELSE [st EXCEPT !.pc = "poll"]

\* one pass of event_generator from the top of its loop to its next yield or
\* sleep
stream_after_poll(st) ==
    IF st.job_id \notin DOMAIN research_jobs
    THEN [st EXCEPT !.events = Emit(@, Event("error",
                                     json_dumps([message |-> "Job not found"]))),
                    !.pc = "done"]
    ELSE IF Len(research_jobs[st.job_id].progress) > 0
    THEN [st EXCEPT !.events = Emit(@, Event("progress",
                          json_dumps(Last(research_jobs[st.job_id].progress)))),
                    !.pc = "check"]
    ELSE stream_after_check(st)

event_generator_poll ==
    /\ stream.pc = "poll"
    /\ stream' = stream_after_poll(stream)
    /\ response' = NoResponse
    /\ UNCHANGED <<research_jobs, task, notApi>>

\* the generator resumes after its 'progress' yield
event_generator_check ==
    /\ stream.pc = "check"
    /\ stream' = stream_after_check(stream)
    /\ response' = NoResponse
    /\ UNCHANGED <<research_jobs, task, notApi>>

\* the background tasks and the stream
NextRun ==
    \/ \E j \in JobIds, c \in CompanyNames, l \in Locations : start_research(j, c, l)
    \/ \E j \in JobIds : run_tenant_research_begin(j)
    \/ \E j \in JobIds : run_tenant_research_resume(j)
    \/ \E j \in issued \cup {UnknownId} : research_progress_stream(j)
    \/ event_generator_poll
    \/ event_generator_check

NextApi ==
    \/ NextRun
    \/ \E j \in issued \cup {UnknownId} : get_research_status(j)

\* ------------------------------------------------------ Part I: claims

\* the ids a tracked job can have
Tracked == DOMAIN research_jobs

JobNotFoundEvent == Event("error", json_dumps([message |-> "Job not found"]))

IsTerminal(e) == e.event \in {"complete", "error"}

TerminalCount(events) == Cardinality({n \in 1..Len(events) : IsTerminal(events[n])})

\* C1: for every jobId start_research returned, a later get_research_status
\* call or progress stream for that id finds the job: neither reports
\* 'Job not found'.
C1_IssuedJobIsFound ==
    /\ response.job_id \in issued => response.error = None
    /\ stream.job_id \in issued => \A n \in 1..Len(stream.events) :
                                      stream.events[n] # JobNotFoundEvent

\* the eight steps in order, each completed
AllStepsCompleted ==
    [n \in 1..Len(steps) |-> [stepId |-> steps[n].stepId,
                              stepName |-> steps[n].stepName,
                              status |-> "completed"]]

\* C2: every job whose background task has started eventually reaches status
\* 'completed', and when it does its progress list holds the eight steps in
\* order, each with status 'completed'.
C2_StartedJobCompletes ==
    /\ \A j \in JobIds :
          (j \in Tracked) ~> (j \in Tracked /\ research_jobs[j].status = "completed")
    /\ [](\A j \in Tracked : research_jobs[j].status = "completed"
                                => research_jobs[j].progress = AllStepsCompleted)

C2_Witness ==
    \E j \in Tracked : /\ research_jobs[j].status = "completed"
                       /\ task[j].pc = "done"
                       /\ Len(research_jobs[j].progress) = 8

\* C3: every progress stream eventually ends; it emits exactly one terminal
\* event ('complete' or 'error'), that event is its last event, and a
\* 'complete' event carries the result stored for the job.
C3_StreamEnds ==
    /\ (stream.pc # "unopened") ~> (stream.pc = "done")
    /\ [](stream.pc # "done" => TerminalCount(stream.events) = 0)
    /\ [](stream.pc = "done" =>
            /\ TerminalCount(stream.events) = 1
            /\ IsTerminal(Last(stream.events))
            /\ Last(stream.events).event = "complete" =>
                 /\ stream.job_id \in Tracked
                 /\ Last(stream.events).data
                      = json_dumps(research_jobs[stream.job_id].result)
                 /\ research_jobs[stream.job_id].result # None)

C3_Witness ==
    /\ stream.pc = "done"
    /\ Last(stream.events).event = "complete"
    /\ Len(stream.events) > 2

\* what get_research_status shows of a job obeys the same rule as the job
StatusRule(status, result, error) ==
    /\ status \in {"running", "completed", "failed"}
    /\ (result # None) <=> (status = "completed")
    /\ (error # None) <=> (status = "failed")

\* C4: in every observable state a tracked job's status is one of 'running',
\* 'completed', 'failed'; result is non-null exactly when status is
\* 'completed' and error is non-null exactly when status is 'failed'; once
\* status is 'completed' or 'failed' it never changes again.
C4_JobStatusRule ==
    /\ [](\A j \in Tracked : StatusRule(research_jobs[j].status,
                                        research_jobs[j].result,
                                        research_jobs[j].error))
    /\ [](response.body # None => StatusRule(response.body[1].status,
                                             response.body[1].result,
                                             response.body[1].error))
    /\ [][\A j \in Tracked :
            research_jobs[j].status \in {"completed", "failed"}
               => /\ j \in DOMAIN research_jobs'
                  /\ research_jobs'[j].status = research_jobs[j].status]_apiVars

C4_Witness ==
    /\ response.body # None
    /\ response.body[1].status = "completed"
    /\ response.body[1].result # None
    /\ response.body[1].error = None

\* C5: for a job id that is not in research_jobs, get_research_status returns
\* the error value 'Job not found' and the progress stream emits a single
\* 'error' event with message 'Job not found' and then ends; neither adds an
\* entry to research_jobs or changes any existing job.
C5_UnknownJob ==
    [][/\ \A j \in JobIds \cup {UnknownId} :
             (j \notin Tracked /\ get_research_status(j))
                => /\ response' = [job_id |-> j, error |-> Some("Job not found"),
                                   body |-> None]
                   /\ research_jobs' = research_jobs
       /\ (stream.job_id \notin Tracked /\ event_generator_poll)
             => /\ stream'.events = <<JobNotFoundEvent>>
                /\ stream'.pc = "done"
                /\ research_jobs' = research_jobs
      ]_apiVars

C5_Witness ==
    /\ stream.pc = "done"
    /\ stream.events = <<JobNotFoundEvent>>
    /\ stream.job_id \in issued
    /\ Tracked # {}

\* the place in the eight-step order of the step a 'progress' event names
StepIndex(e) == CHOOSE i \in 1..Len(steps) : steps[i].stepId = e.data.json.stepId

\* the 'progress' events of the stream, by their place in it
ProgressEvents == {n \in 1..Len(stream.events) : stream.events[n].event = "progress"}

\* C23: within one progress stream the steps named by successive 'progress'
\* events never go backwards in the eight-step order, and no 'progress' event
\* follows the stream's terminal event.
C23_ProgressInOrder ==
    \A m, n \in 1..Len(stream.events) :
        m < n =>
            /\ (m \in ProgressEvents /\ n \in ProgressEvents)
                  => StepIndex(stream.events[m]) <= StepIndex(stream.events[n])
            /\ ~(IsTerminal(stream.events[m]) /\ n \in ProgressEvents)

\* a stream has ended with 'complete' after 'progress' events for at least
\* three different steps
C23_Witness ==
    /\ stream.pc = "done"
    /\ Last(stream.events).event = "complete"
    /\ Cardinality({StepIndex(stream.events[n]) : n \in ProgressEvents}) >= 3

\* C24: a progress stream that has been polling the job since its first step
\* emits at least one 'progress' event for each of the eight steps before it
\* emits 'complete'.
C24_EveryStepSeen ==
    (/\ Len(stream.events) > 0
     /\ Last(stream.events).event = "complete"
     /\ 1 \in ProgressEvents
     /\ stream.events[1].data = json_dumps(progress_update(1)))
    => {StepIndex(stream.events[n]) : n \in ProgressEvents} = 1..Len(steps)

\* a stream whose first event showed the first step active has ended with
\* 'complete' after 'progress' events for the first and the last step alone
C24_Failing ==
    /\ stream.pc = "done"
    /\ Last(stream.events).event = "complete"
    /\ stream.events[1].data = json_dumps(progress_update(1))
    /\ {StepIndex(stream.events[n]) : n \in ProgressEvents} = {1, Len(steps)}

\* ================== Part II: src/company_research_demo.py, the workflow ===
\* Fields that no routing function or validation reads (the drawn financial
\* figures, the summary text, the recommendation made of them and the
\* messages log) are left out of the record; a dict is kept as the set of its
\* keys and a news item as its sentiment.
\* the keys of COMPANY_DATA
COMPANY_DATA_names == {"Apple Inc.", "Tesla", "Amazon"}

COMPANY_DATA ==
    [n \in COMPANY_DATA_names |->
        CASE n = "Apple Inc." ->
               [ticker |-> "AAPL", industry |-> "Technology",
                competitors |-> <<"Microsoft", "Google", "Samsung">>]
          [] n = "Tesla" ->
               [ticker |-> "TSLA", industry |-> "Automotive/Energy",
                competitors |-> <<"BYD", "Volkswagen", "Ford">>]
          [] n = "Amazon" ->
               [ticker |-> "AMZN", industry |-> "E-commerce/Cloud",
                competitors |-> <<"Microsoft", "Google", "Walmart">>]]

\* the company names graph.invoke is given: the three of COMPANY_DATA, a name
\* it does not know, and the empty string
CompanyInputs == COMPANY_DATA_names \cup {"Local Startup XYZ", ""}

\* a float kept as a fraction
Ratio(n, d) == [num |-> n, den |-> d]
\* c < 0.7
BelowSevenTenths(c) == c.num * 10 < 7 * c.den

\* initial_state of __main__
cr_initial_state(company_name) ==
    [company_name |-> company_name,
     ticker |-> "",
     financial_metrics |-> {},
     competitors |-> <<>>,
     recent_news |-> <<>>,
     key_events |-> <<>>,
     leadership_info |-> {},
     tech_stack |-> <<>>,
     esg_score |-> {},
     risk_factors |-> <<>>,
     confidence_score |-> Ratio(0, 1),
     errors |-> <<>>,
     data_sources |-> <<>>]

company_identifier(st) ==
    LET known == st.company_name \in COMPANY_DATA_names
        a == IF known
             THEN [st EXCEPT !.ticker = COMPANY_DATA[st.company_name].ticker]
             ELSE [st EXCEPT !.ticker = "UNKNOWN"]
    IN  [a EXCEPT !.data_sources = Append(@, "Company Database")]

financial_analyst(st) ==
    [st EXCEPT !.financial_metrics = {"revenue", "revenue_growth", "profit_margin",
                                      "debt_to_equity", "current_ratio", "pe_ratio",
                                      "market_cap"},
               !.data_sources = Append(@, "Financial APIs")]

market_analyst(st) ==
    [st EXCEPT !.competitors =
                   IF st.company_name \in COMPANY_DATA_names
                   THEN COMPANY_DATA[st.company_name].competitors
                   ELSE <<"Competitor A", "Competitor B", "Competitor C">>,
               !.data_sources = Append(@, "Industry Reports")]

\* the values random.choice(sentiments) can return
Sentiments == {"positive", "neutral", "negative"}

\* news['headline'].split(state['company_name']) raises ValueError (empty
\* separator) for the empty name; it is evaluated for each positive headline
news_raises(st, picks) ==
    /\ st.company_name = ""
    /\ \E n \in 1..Len(picks) : picks[n] = "positive"

\* picks: the three sentiments drawn
news_sentiment_analyst(st, picks) ==
    LET positives == SelectSeq(picks, LAMBDA x : x = "positive")
    IN  [st EXCEPT !.recent_news = picks,
                   !.key_events = SubSeq(positives, 1,
                                         IF Len(positives) < 2 THEN Len(positives) ELSE 2),
                   !.data_sources = Append(@, "News APIs")]

leadership_culture_analyst(st) ==
    [st EXCEPT !.leadership_info = {"ceo_tenure", "management_stability",
                                    "board_independence", "insider_ownership"},
               !.data_sources = Append(@, "Professional Networks")]

technology_innovation_analyst(st) ==
    [st EXCEPT !.tech_stack =
                   CASE st.company_name = "Apple Inc." ->
                          <<"Swift/Objective-C", "Machine Learning", "Custom Silicon", "AR/VR">>
                     [] st.company_name = "Tesla" ->
                          <<"AI/Autopilot", "Battery Technology",
                            "Manufacturing Automation", "OTA Updates">>
                     [] st.company_name = "Amazon" ->
                          <<"AWS Infrastructure", "Machine Learning", "Robotics", "Voice AI">>
                     [] OTHER ->
                          <<"Cloud Computing", "Data Analytics", "Mobile Apps", "AI/ML">>,
               !.data_sources = Append(@, "Patent Databases")]

\* industry.split('/')[0] looked up in risk_profiles, whose keys are the
\* unsplit industry names
esg_risk_factors(company_name) ==
    LET industry == IF company_name \in COMPANY_DATA_names
                    THEN COMPANY_DATA[company_name].industry
                    ELSE "Technology"
    IN  IF industry = "Technology"
        THEN <<"Data privacy regulations", "Cybersecurity threats",
               "Supply chain dependencies">>
        ELSE <<"Market competition", "Regulatory changes", "Economic downturn">>

esg_risk_analyst(st) ==
    [st EXCEPT !.esg_score = {"environmental", "social", "governance"},
               !.risk_factors = esg_risk_factors(st.company_name),
               !.data_sources = Append(@, "ESG Databases")]

\* bool(x) of a dict (a set of keys) and of a list
BoolSet(x) == IF x # {} THEN 1 ELSE 0
BoolSeq(x) == IF Len(x) > 0 THEN 1 ELSE 0

report_synthesizer(st) ==
    [st EXCEPT !.confidence_score =
                   Ratio(BoolSet(st.financial_metrics) + BoolSeq(st.competitors)
                         + BoolSeq(st.recent_news) + BoolSet(st.leadership_info)
                         + BoolSet(st.esg_score) + BoolSeq(st.tech_stack), 6)]

\* the checks of quality_validator that fail, in the order of its dict
cr_missing(st) ==
    (IF st.financial_metrics = {} THEN <<"Missing: Financial Data">> ELSE <<>>)
    \o (IF Len(st.competitors) = 0 THEN <<"Missing: Market Analysis">> ELSE <<>>)
    \o (IF Len(st.recent_news) = 0 THEN <<"Missing: News Sentiment">> ELSE <<>>)
    \o (IF Len(st.risk_factors) = 0 THEN <<"Missing: Risk Assessment">> ELSE <<>>)
    \o (IF st.esg_score = {} THEN <<"Missing: ESG Analysis">> ELSE <<>>)

quality_validator(st) ==
    [st EXCEPT !.errors = @ \o cr_missing(st)]

\* mutant: 'or' in place of 'and'
should_enhance_research_or(st) ==
    IF BelowSevenTenths(st.confidence_score) \/ Len(st.errors) = 0
    THEN "enhance" ELSE "complete"

should_enhance_research(st) ==
    IF BelowSevenTenths(st.confidence_score) /\ Len(st.errors) = 0
    THEN "enhance" ELSE "complete"

\* create_company_research_graph: the node that follows `node`, given the
\* state the node left
cr_successor(node, st) ==
    CASE node = "company_identifier" -> "financial_analyst"
      [] node = "financial_analyst" -> "market_analyst"
      [] node = "market_analyst" -> "news_sentiment_analyst"
      [] node = "news_sentiment_analyst" -> "leadership_culture_analyst"
      [] node = "leadership_culture_analyst" -> "technology_innovation_analyst"
      [] node = "technology_innovation_analyst" -> "esg_risk_analyst"
      [] node = "esg_risk_analyst" -> "report_synthesizer"
      [] node = "report_synthesizer" -> "quality_validator"
      [] node = "quality_validator" ->
           IF should_enhance_research(st) = "enhance" THEN "market_analyst" ELSE "END"

\* the nodes that draw nothing at random
cr_apply(node, st) ==
    CASE node = "company_identifier" -> company_identifier(st)
      [] node = "financial_analyst" -> financial_analyst(st)
      [] node = "market_analyst" -> market_analyst(st)
      [] node = "leadership_culture_analyst" -> leadership_culture_analyst(st)
      [] node = "technology_innovation_analyst" -> technology_innovation_analyst(st)
      [] node = "esg_risk_analyst" -> esg_risk_analyst(st)
      [] node = "report_synthesizer" -> report_synthesizer(st)
      [] node = "quality_validator" -> quality_validator(st)

cr_nodes == {"company_identifier", "financial_analyst", "market_analyst",
             "news_sentiment_analyst", "leadership_culture_analyst",
             "technology_innovation_analyst", "esg_risk_analyst",
             "report_synthesizer", "quality_validator"}

\* no run of the company research graph
IdleCompany ==
    /\ cr = cr_initial_state("")
    /\ cr_node = "idle"
    /\ cr_trace = <<>>

\* graph.invoke(initial_state)
InitCompany ==
    /\ \E name \in CompanyInputs : cr = cr_initial_state(name)
    /\ cr_node = "company_identifier"
    /\ cr_trace = <<>>

\* one node other than news_sentiment_analyst runs, and the graph routes
cr_step ==
    /\ cr_node \in cr_nodes \ {"news_sentiment_analyst"}
    /\ cr' = cr_apply(cr_node, cr)
    /\ cr_node' = cr_successor(cr_node, cr')
    /\ cr_trace' = Append(cr_trace, cr_node)
    /\ UNCHANGED notCompany

\* news_sentiment_analyst runs with the three sentiments it draws
cr_news_step ==
    /\ cr_node = "news_sentiment_analyst"
    /\ \E picks \in [1..3 -> Sentiments] :
          IF news_raises(cr, picks)
          THEN /\ cr' = [cr EXCEPT !.recent_news = picks]
               /\ cr_node' = "raised"
          ELSE /\ cr' = news_sentiment_analyst(cr, picks)
               /\ cr_node' = cr_successor(cr_node, cr')
    /\ cr_trace' = Append(cr_trace, cr_node)
    /\ UNCHANGED notCompany

NextCompany ==
    \/ cr_step
    \/ cr_news_step

\* ----------------------------------------------------- Part II: claims

\* C7: after quality_validator the run goes back to market_analyst exactly
\* when confidence_score < 0.7 and errors is empty, and goes to END
\* otherwise; once errors is non-empty the workflow never loops back again.
C7_EnhanceRouting ==
    /\ [](\A n \in 0..6, e \in {<<>>, <<"Missing: Financial Data">>} :
            LET st == [cr EXCEPT !.confidence_score = Ratio(n, 6), !.errors = e]
            IN  cr_successor("quality_validator", st) =
                    IF 10 * n < 42 /\ e = <<>> THEN "market_analyst" ELSE "END")
    /\ [][LET enhance == /\ BelowSevenTenths(cr'.confidence_score)
                         /\ cr'.errors = <<>>
          IN  /\ cr_node = "quality_validator" =>
                    /\ (cr_node' = "market_analyst") <=> enhance
                    /\ (cr_node' = "END") <=> ~enhance
              /\ cr.errors # <<>> =>
                    /\ cr'.errors # <<>>
                    /\ ~(cr_node = "quality_validator" /\ cr_node' = "market_analyst")
              /\ cr_node' = "market_analyst" =>
                    cr_node \in {"financial_analyst", "quality_validator"}
         ]_companyVars

C7_Witness ==
    /\ cr_node = "END"
    /\ Last(cr_trace) = "quality_validator"
    /\ ~BelowSevenTenths(cr.confidence_score)

\* C8: for every company name (known to COMPANY_DATA or not) and every
\* outcome of the random choices, the workflow reaches END.
C8_ReachesEnd ==
    cr_node \notin cr_nodes => cr_node \in {"END", "idle"}

\* lemma for C8: a run that does not raise executes its nine nodes once each
\* and takes the loop from quality_validator to market_analyst no time
C8_NoLoopPass ==
    cr_node = "END" => /\ Len(cr_trace) = 9
                       /\ cr.confidence_score = Ratio(6, 6)
                       /\ cr.errors = <<>>

\* ======================= Part III: src/research_assistant.py, the graph ===
\* The messages log is left out of the record.  A text is kept as the
\* sequence of its words, a search result as its query and a finding as its
\* source.

\* what llm.invoke(...).content can be; llm.invoke can also raise (no API
\* key, network, quota), which nothing inside the graph catches
LLMContents == {<<"report", "A">>, <<"report", "B">>, <<"Approved", "report">>}
LLMOutcomes == {None} \cup {Some(c) : c \in LLMContents}

\* "Approved" in text
ContainsApproved(text) == \E n \in 1..Len(text) : text[n] = "Approved"

\* initial_state of __main__
ra_initial_state ==
    [topic |-> <<"The", "impact", "of", "AI", "on", "software", "development">>,
     search_queries |-> <<>>,
     search_results |-> <<>>,
     key_findings |-> <<>>,
     draft_report |-> <<>>,
     human_feedback |-> <<>>,
     final_report |-> <<>>,
     iteration |-> 0,
     max_iterations |-> 2]

research_planner(st) ==
    [st EXCEPT !.search_queries =
                   << st.topic \o <<"latest", "research">>,
                      st.topic \o <<"industry", "trends", "2024">>,
                      st.topic \o <<"best", "practices">>,
                      st.topic \o <<"case", "studies">>,
                      st.topic \o <<"future", "predictions">> >>]

\* found: the indices of the first three queries whose search.run returns;
\* the others raise, which web_researcher catches
web_researcher(st, found) ==
    LET first3 == SubSeq(st.search_queries, 1,
                         IF Len(st.search_queries) < 3 THEN Len(st.search_queries) ELSE 3)
        Keep(n) == IF n \in found THEN <<first3[n]>> ELSE <<>>
        RECURSIVE Collect(_)
        Collect(n) == IF n > Len(first3) THEN <<>> ELSE Keep(n) \o Collect(n + 1)
    IN  [st EXCEPT !.search_results = Collect(1)]

content_analyzer(st) ==
    [st EXCEPT !.key_findings = st.search_results]

report_writer(st, content) ==
    [st EXCEPT !.draft_report = content]

\* a reviewer that asks for a revision without counting it
human_reviewer_uncounted(st) ==
    IF st.iteration = 0
    THEN [st EXCEPT !.human_feedback = <<"Good", "start,", "but", "please", "add", "more",
                                         "specific", "examples", "and", "data", "points.">>]
    ELSE [st EXCEPT !.human_feedback = <<"Approved", "-", "ready", "to", "publish!">>]

human_reviewer(st) ==
    IF st.iteration = 0
    THEN [st EXCEPT !.human_feedback = <<"Good", "start,", "but", "please", "add", "more",
                                         "specific", "examples", "and", "data", "points.">>,
                    !.iteration = @ + 1]
    ELSE [st EXCEPT !.human_feedback = <<"Approved", "-", "ready", "to", "publish!">>]

\* content: what the LLM answers when asked for a revision
report_finalizer(st, content) ==
    IF ContainsApproved(st.human_feedback)
    THEN [st EXCEPT !.final_report = st.draft_report]
    ELSE [st EXCEPT !.final_report = content]

\* mutant: the routes swapped
route_after_human_review_swapped(st) ==
    IF ContainsApproved(st.human_feedback) THEN "revise" ELSE "finalize"

route_after_human_review(st) ==
    IF ContainsApproved(st.human_feedback) THEN "finalize" ELSE "revise"

\* create_research_graph: the node that follows `node`, given the state the
\* node left
ra_successor(node, st) ==
    CASE node = "planner" -> "researcher"
      [] node = "researcher" -> "analyzer"
      [] node = "analyzer" -> "writer"
      [] node = "writer" -> "human_review"
      [] node = "human_review" ->
           IF route_after_human_review(st) = "finalize" THEN "finalizer" ELSE "writer"
      [] node = "finalizer" -> "END"

Executed(node, answer) == [node |-> node, response |-> answer]

\* no run of the research assistant graph
IdleAssistant ==
    /\ ra = ra_initial_state
    /\ ra_node = "idle"
    /\ ra_trace = <<>>

\* graph.invoke(initial_state)
InitAssistant ==
    /\ ra = ra_initial_state
    /\ ra_node = "planner"
    /\ ra_trace = <<>>

\* a node ends: the graph routes, or the run ends with the exception
ra_finish(node, st, answer, raised) ==
    /\ ra' = (IF raised THEN ra ELSE st)
    /\ ra_node' = (IF raised THEN "raised" ELSE ra_successor(node, st))
    /\ ra_trace' = Append(ra_trace, Executed(node, answer))
    /\ UNCHANGED notAssistant

ra_planner_step ==
    /\ ra_node = "planner"
    /\ \E r \in LLMOutcomes :
          ra_finish("planner", research_planner(ra), None, r = None)

ra_researcher_step ==
    /\ ra_node = "researcher"
    /\ \E found \in SUBSET (1..3) :
          ra_finish("researcher", web_researcher(ra, found), None, FALSE)

\* one llm.invoke per search result
ra_analyzer_step ==
    /\ ra_node = "analyzer"
    /\ \E r \in LLMOutcomes :
          ra_finish("analyzer", content_analyzer(ra), None,
                    Len(ra.search_results) > 0 /\ r = None)

ra_writer_step ==
    /\ ra_node = "writer"
    /\ \E r \in LLMOutcomes :
          IF r = None
          THEN ra_finish("writer", ra, None, TRUE)
          ELSE ra_finish("writer", report_writer(ra, r[1]), r, FALSE)

ra_human_review_step ==
    /\ ra_node = "human_review"
    /\ ra_finish("human_review", human_reviewer(ra), None, FALSE)

\* llm.invoke is reached only without "Approved" in the feedback
ra_finalizer_step ==
    /\ ra_node = "finalizer"
    /\ \E r \in LLMOutcomes :
          IF r = None
          THEN ra_finish("finalizer", report_finalizer(ra, <<>>), None,
                         ~ContainsApproved(ra.human_feedback))
          ELSE ra_finish("finalizer", report_finalizer(ra, r[1]), None, FALSE)

NextAssistant ==
    \/ ra_planner_step
    \/ ra_researcher_step
    \/ ra_analyzer_step
    \/ ra_writer_step
    \/ ra_human_review_step
    \/ ra_finalizer_step

\* ---------------------------------------------------- Part III: claims
\* the executions of `node` in the trace
RunsOf(node) == {n \in 1..Len(ra_trace) : ra_trace[n].node = node}
\* the executions of report_writer that set draft_report
Drafts == {n \in RunsOf("writer") : ra_trace[n].response # None}
LastDraft == ra_trace[CHOOSE n \in Drafts : \A m \in Drafts : m <= n].response[1]

\* C9: report_writer runs again after every human_review whose feedback
\* lacks "Approved"; report_finalizer runs only after a feedback with
\* "Approved", exactly once per run that reaches END; and at END
\* final_report equals the draft_report of the last report_writer run.
C9_ReviewLoop ==
    /\ [][ra_node = "human_review" =>
             /\ ~ContainsApproved(ra'.human_feedback) => ra_node' = "writer"
             /\ ContainsApproved(ra'.human_feedback) => ra_node' = "finalizer"
         ]_assistantVars
    /\ [](ra_node = "finalizer" =>
             /\ ContainsApproved(ra.human_feedback)
             /\ Last(ra_trace).node = "human_review")
    /\ [](Cardinality(RunsOf("finalizer")) <= 1)
    /\ [](ra_node = "END" =>
             /\ Cardinality(RunsOf("finalizer")) = 1
             /\ Last(ra_trace).node = "finalizer"
             /\ Drafts # {}
             /\ ra.final_report = LastDraft
             /\ ra.final_report = ra.draft_report)

\* a run at END whose first draft was reviewed without "Approved" and then
\* written again, differently
C9_Witness ==
    /\ ra_node = "END"
    /\ Cardinality(RunsOf("writer")) = 2
    /\ Cardinality(RunsOf("human_review")) = 2
    /\ \E n \in Drafts : ra_trace[n].response[1] # ra.final_report

\* the router no edge of the graph uses
should_continue(st) ==
    IF ContainsApproved(st.human_feedback) THEN "end"
    ELSE IF st.iteration < st.max_iterations THEN "continue"
    ELSE "end"

\* graph.invoke of a state with any iteration and max_iterations
InitAssistantAny ==
    /\ \E iteration \in 0..MaxIterations, max_iterations \in 0..MaxIterations :
          ra = [ra_initial_state EXCEPT !.iteration = iteration,
                                        !.max_iterations = max_iterations]
    /\ ra_node = "planner"
    /\ ra_trace = <<>>

\* the executions of human_review the graph followed by report_writer
ReviseCycles ==
    {n \in 1..(Len(ra_trace) - 1) :
        ra_trace[n].node = "human_review" /\ ra_trace[n + 1].node = "writer"}

\* C20: whatever iteration and max_iterations the run starts with, the number
\* of revise cycles, human_review followed by report_writer, never exceeds
\* max_iterations.
C20_ReviseWithinMax == Cardinality(ReviseCycles) <= ra.max_iterations

\* a run that started with max_iterations = 0 has ended after one revise
\* cycle, the router that reads max_iterations saying end at every review
C20_Failing ==
    /\ ra_node = "END"
    /\ ra.max_iterations = 0
    /\ Cardinality(ReviseCycles) = 1
    /\ should_continue([ra EXCEPT !.human_feedback = <<>>, !.iteration = 0]) = "end"

DEMO_COMPANY_names == {"Blue Bottle Coffee", "TechVenture Labs", "GreenSpace Wellness"}

DEMO_COMPANY_DATA ==
    [n \in DEMO_COMPANY_names |->
        CASE n = "Blue Bottle Coffee" ->
               [industry |-> "Food & Beverage",
                website |-> Some("https://bluebottlecoffee.com"),
                founded |-> 2002,
                employees |-> "500-1000",
                revenue |-> "$100M+",
                locations |-> <<"Ferry Building, San Francisco", "Oakland Headquarters">>,
                social_media |-> {"instagram", "linkedin"},
                review_score |-> 45,
                risk_factors |-> <<>>]
          [] n = "TechVenture Labs" ->
               [industry |-> "Technology",
                website |-> Some("https://techventurelabs.io"),
                founded |-> 2019,
                employees |-> "10-50",
                revenue |-> "$5-10M",
                locations |-> <<"WeWork Palo Alto">>,
                social_media |-> {"linkedin"},
                review_score |-> 38,
                risk_factors |-> <<"New business", "Limited financial history">>]
          [] n = "GreenSpace Wellness" ->
               [industry |-> "Health & Wellness",
                website |-> None,
                founded |-> 2021,
                employees |-> "5-10",
                revenue |-> "Under $1M",
                locations |-> <<>>,
                social_media |-> {"instagram"},
                review_score |-> 42,
                risk_factors |-> <<"Very new business", "No verified location",
                                   "Limited online presence">>]]

\* DEMO_COMPANY_DATA.get(company_name, {}) is non-empty
InDemoData(company_name) == company_name \in DEMO_COMPANY_names

\* what the random draws of a run can be: random.uniform(3.0, 4.5) in tenths,
\* random.randint(1, 5), random.choice([True, False]); and datetime.now().year
UniformDraws == {30, 38, 45}
RandintDraws == 1..5
CurrentYears == {2025, 2026}

\* "100M" in revenue, "500" in employees, "50" in employees, for the texts
\* the data holds
Has100M(revenue) == revenue = "$100M+"
Has500(employees) == employees = "500-1000"
Has50(employees) == employees \in {"500-1000", "10-50"}

Min(a, b) == IF a < b THEN a ELSE b
Max(a, b) == IF a > b THEN a ELSE b

\* initial_state of __main__, the state the commented-out invoke would get
tenant_initial_state(company_name, location) ==
    [company_name |-> company_name,
     location |-> location,
     industry |-> "",
     website_url |-> None,
     social_media_profiles |-> {},
     review_sentiment |-> 500,
     years_in_business |-> None,
     business_type |-> "",
     is_verified |-> FALSE,
     estimated_revenue |-> None,
     employee_count |-> None,
     growth_indicators |-> <<>>,
     current_locations |-> <<>>,
     space_requirements |-> None,
     lease_history |-> <<>>,
     negative_news |-> <<>>,
     risk_score |-> 500,
     creditworthiness_indicators |-> <<>>,
     stability_score |-> 0,
     growth_potential |-> 0,
     overall_tenant_score |-> 0,
     recommendation |-> "Not Recommended",
     key_concerns |-> <<>>,
     positive_factors |-> <<>>,
     executive_summary |-> <<>>,
     confidence_level |-> Ratio(0, 1),
     data_sources |-> <<>>]

company_identifier_agent(st) ==
    LET a == IF InDemoData(st.company_name)
             THEN [st EXCEPT !.industry = DEMO_COMPANY_DATA[st.company_name].industry,
                             !.website_url = DEMO_COMPANY_DATA[st.company_name].website]
             ELSE [st EXCEPT !.industry = "Unknown"]
    IN  [a EXCEPT !.data_sources = Append(@, "Business Database Search")]

\* uniform: the review score drawn when the data has none
online_presence_analyzer(st, uniform) ==
    LET review_score == IF InDemoData(st.company_name)
                        THEN DEMO_COMPANY_DATA[st.company_name].review_score
                        ELSE uniform
    IN  [st EXCEPT !.social_media_profiles =
                       IF InDemoData(st.company_name)
                       THEN DEMO_COMPANY_DATA[st.company_name].social_media
                       ELSE {},
                   !.review_sentiment = review_score * 20,
                   !.data_sources = Append(@, "Online Review Platforms")]

\* no name of the model holds "LLC", "Inc" or "Corp"
business_verification_agent(st, year, randint, choice) ==
    LET a == IF InDemoData(st.company_name)
             THEN [st EXCEPT !.years_in_business =
                                 Some(year - DEMO_COMPANY_DATA[st.company_name].founded),
                             !.is_verified = TRUE]
             ELSE [st EXCEPT !.years_in_business = Some(randint),
                             !.is_verified = choice]
    IN  [a EXCEPT !.business_type = "LLC",
                  !.data_sources = Append(@, "State Business Registry")]

\* x and x < n, for an Optional[int]
TruthyBelow(x, n) == x # None /\ x[1] # 0 /\ x[1] < n
TruthyAbove(x, n) == x # None /\ x[1] # 0 /\ x[1] > n
\* x or 0
OrZero(x) == IF x = None THEN 0 ELSE x[1]

financial_indicators_agent(st) ==
    LET revenue == IF InDemoData(st.company_name)
                   THEN DEMO_COMPANY_DATA[st.company_name].revenue
                   ELSE "Not disclosed"
        employees == IF InDemoData(st.company_name)
                     THEN DEMO_COMPANY_DATA[st.company_name].employees
                     ELSE "Unknown"
    IN  [st EXCEPT !.estimated_revenue = Some(revenue),
                   !.employee_count = Some(employees),
                   !.growth_indicators =
                       IF TruthyBelow(st.years_in_business, 5)
                       THEN <<"Young growing company", "Expanding team">>
                       ELSE IF Has100M(revenue)
                            THEN <<"Strong revenue", "Market leader", "Stable growth">>
                            ELSE <<"Steady operations">>,
                   !.data_sources = Append(@, "Financial Indicators Analysis")]

real_estate_history_agent(st) ==
    LET locations == IF InDemoData(st.company_name)
                     THEN DEMO_COMPANY_DATA[st.company_name].locations
                     ELSE <<>>
        sized == st.employee_count # None /\ st.employee_count # Some("Unknown")
    IN  [st EXCEPT !.current_locations = locations,
                   !.space_requirements =
                       IF ~sized THEN @
                       ELSE IF Has500(st.employee_count[1]) THEN Some("20,000-50,000 sq ft")
                       ELSE IF Has50(st.employee_count[1]) THEN Some("5,000-10,000 sq ft")
                       ELSE Some("1,000-5,000 sq ft"),
                   !.lease_history =
                       IF Len(locations) > 0
                       THEN <<[type |-> "Current lease", status |-> "Active"]>>
                       ELSE @,
                   !.data_sources = Append(@, "Commercial Real Estate Records")]

\* the risk_factors lists of the table as the module defines them
DEMO_risk_factors == [n \in DEMO_COMPANY_names |-> DEMO_COMPANY_DATA[n].risk_factors]

\* company_data.get('risk_factors', []): the list the table holds for the
\* company as it is now, or a new empty list
risk_factors_of(company_name, table_risk_factors) ==
    IF InDemoData(company_name) THEN table_risk_factors[company_name] ELSE <<>>

\* an agent that appends whatever the age of the business
risk_factors_after_always(st, given) == Append(given, "Very new business")

\* the list risk_assessment_agent holds as risk_factors after its append:
\* negative_news and risk_factors are one list object
risk_factors_after(st, given) ==
    IF TruthyBelow(st.years_in_business, 2)
    THEN Append(given, "Very new business") ELSE given

\* given: company_data.get('risk_factors', []).  The entry appended for a
\* very new business counts in len(risk_factors)
risk_assessment_agent(st, given) ==
    LET very_new == TruthyBelow(st.years_in_business, 2)
        risk_factors == risk_factors_after(st, given)
        \* risk_points, in halves
        risk_points == (IF very_new THEN 6 ELSE 0)
                       + (IF ~st.is_verified THEN 4 ELSE 0)
                       + (IF st.website_url = None THEN 2 ELSE 0)
                       + (IF Len(st.current_locations) = 0 THEN 4 ELSE 0)
                       + Len(risk_factors)
    IN  [st EXCEPT !.negative_news = risk_factors,
                   !.risk_score = Min(risk_points * 50, 1000),
                   !.data_sources = Append(@, "Risk Assessment Database")]

\* the four thresholds of the recommendation, on a score in thousandths
\* a scoring agent that asks 70 points for the highest recommendation
recommendation_of_seventy(overall) ==
    IF overall >= 70000 THEN "Highly Recommended"
    ELSE IF overall >= 60000 THEN "Recommended"
    ELSE IF overall >= 40000 THEN "Proceed with Caution"
    ELSE "Not Recommended"

recommendation_of(overall) ==
    IF overall >= 75000 THEN "Highly Recommended"
    ELSE IF overall >= 60000 THEN "Recommended"
    ELSE IF overall >= 40000 THEN "Proceed with Caution"
    ELSE "Not Recommended"

tenant_scoring_agent(st) ==
    LET stability == Min(OrZero(st.years_in_business), 10) * 30
                     + (IF st.is_verified THEN 200 ELSE 0)
                     + (IF Len(st.current_locations) > 0 THEN 200 ELSE 0)
                     + Cardinality(st.social_media_profiles) * 60
        growth == Len(st.growth_indicators) * 80
                  + (Max(0, (st.review_sentiment - 500) * 2) * 3) \div 10
                  + (IF st.employee_count # Some("Unknown") THEN 300 ELSE 0)
        overall == stability * 30 + growth * 20 + st.review_sentiment * 25
                   + (1000 - st.risk_score) * 25
    IN  [st EXCEPT !.creditworthiness_indicators =
                       (IF st.estimated_revenue # Some("Not disclosed")
                        THEN <<"Revenue verified">> ELSE <<>>)
                       \o (IF TruthyAbove(st.years_in_business, 3)
                           THEN <<"Established">> ELSE <<>>)
                       \o (IF st.is_verified THEN <<"Verified entity">> ELSE <<>>)
                       \o (IF st.review_sentiment > 700 THEN <<"Strong reputation">> ELSE <<>>)
                       \o (IF Len(st.current_locations) > 0
                           THEN <<"Existing tenant">> ELSE <<>>),
                   !.stability_score = stability,
                   !.growth_potential = growth,
                   !.overall_tenant_score = overall,
                   !.recommendation = recommendation_of(overall),
                   !.key_concerns =
                       (IF st.risk_score > 500 THEN <<"Elevated risk profile">> ELSE <<>>)
                       \o (IF TruthyBelow(st.years_in_business, 2)
                           THEN <<"Very new business">> ELSE <<>>)
                       \o (IF Len(st.current_locations) = 0
                           THEN <<"No verified locations">> ELSE <<>>),
                   !.positive_factors =
                       (IF stability > 700 THEN <<"High stability">> ELSE <<>>)
                       \o (IF st.review_sentiment > 800
                           THEN <<"Excellent reputation">> ELSE <<>>)
                       \o (IF Len(st.growth_indicators) > 0
                           THEN <<"Growth potential">> ELSE <<>>)]

\* create_tenant_research_graph: identify, online, verify, financial,
\* real_estate, risk, score in this order, with the draws of one run
tenant_graph_invoke(company_name, location, year, uniform, randint, choice) ==
    tenant_scoring_agent(
      risk_assessment_agent(
        real_estate_history_agent(
          financial_indicators_agent(
            business_verification_agent(
              online_presence_analyzer(
                company_identifier_agent(tenant_initial_state(company_name, location)),
                uniform),
              year, randint, choice))),
        risk_factors_of(company_name, DEMO_risk_factors)))

\* every state the workflow can leave tenant_scoring_agent in
tenant_graph_outcomes(company_name, location) ==
    {tenant_graph_invoke(company_name, location, year, uniform, randint, choice) :
        year \in CurrentYears, uniform \in UniformDraws,
        randint \in RandintDraws, choice \in BOOLEAN}

\* ----------------------------------------------------- Part IV: claims

\* C6: the result of a completed research job is the outcome of running the
\* tenant research workflow on the requested company name and location: its
\* recommendation and scores are the ones tenant_scoring_agent computes for
\* that company.
C6_ResultIsWorkflowOutcome ==
    \A j \in Tracked :
        research_jobs[j].status = "completed" =>
            LET result == research_jobs[j].result[1]
            IN  \E o \in tenant_graph_outcomes(task[j].company_name, task[j].location) :
                    /\ result.recommendation = o.recommendation
                    /\ result.overallScore = o.overall_tenant_score
                    /\ result.scores.stability = o.stability_score
                    /\ result.scores.growth = o.growth_potential
                    /\ result.scores.risk = o.risk_score
                    /\ result.scores.reputation = o.review_sentiment

\* the stored recommendation is not even the one tenant_scoring_agent gives
\* the stored score
C6_MockObeysThresholds ==
    \A j \in Tracked :
        research_jobs[j].status = "completed" =>
            research_jobs[j].result[1].recommendation
                = recommendation_of(research_jobs[j].result[1].overallScore)

\* ------------------------------- the graph of the tenant demo and its runs
MaxRuns == 2

DemoInputs == DEMO_COMPANY_names \cup {"Corner Shop"}

\* the six entries of data_completeness that are true, of six
report_generator_agent(st) ==
    LET data_completeness ==
            <<st.website_url # None,
              st.social_media_profiles # {},
              st.years_in_business # None,
              st.estimated_revenue # "Not disclosed",
              st.current_locations # <<>>,
              st.is_verified>>
        true_ones == Cardinality({i \in 1..6 : data_completeness[i]})
    IN  [st EXCEPT
           !.confidence_level = Ratio(true_ones, 6),
           !.executive_summary =
               <<"TENANT EVALUATION", st.company_name, st.recommendation>>]

\* create_tenant_research_graph: the edges
demo_order == <<"identify", "online", "verify", "financial", "real_estate",
                "risk", "score", "report">>

\* a graph whose risk node is wired to the report
demo_successor_skipping(node) ==
    IF node = "report" THEN "END"
    ELSE IF node = "risk" THEN "report"
    ELSE demo_order[1 + CHOOSE i \in 1..7 : demo_order[i] = node]

demo_successor(node) ==
    IF node = "report" THEN "END"
    ELSE demo_order[1 + CHOOSE i \in 1..7 : demo_order[i] = node]

\* no run of the demo graph was started
IdleDemo ==
    /\ td = tenant_initial_state("", "")
    /\ td_node = "idle"
    /\ td_trace = <<>>
    /\ td_runs = 0
    /\ demo_risk_factors = DEMO_risk_factors

\* the node named node returned st
td_finish(node, st) ==
    /\ td_node = node
    /\ td' = st
    /\ td_node' = demo_successor(node)
    /\ td_trace' = Append(td_trace, node)
    /\ UNCHANGED <<td_runs, notDemo>>

\* graph.invoke(initial_state) of __main__, once per company of the list
td_invoke(company_name, location) ==
    /\ td_node \in {"idle", "END"}
    /\ td_runs < MaxRuns
    /\ td' = tenant_initial_state(company_name, location)
    /\ td_node' = "identify"
    /\ td_trace' = <<>>
    /\ td_runs' = td_runs + 1
    /\ UNCHANGED <<demo_risk_factors, notDemo>>

td_identify ==
    /\ td_finish("identify", company_identifier_agent(td))
    /\ UNCHANGED demo_risk_factors

td_online ==
    /\ \E uniform \in UniformDraws :
          td_finish("online", online_presence_analyzer(td, uniform))
    /\ UNCHANGED demo_risk_factors

td_verify ==
    /\ \E year \in CurrentYears, randint \in RandintDraws, choice \in BOOLEAN :
          td_finish("verify", business_verification_agent(td, year, randint, choice))
    /\ UNCHANGED demo_risk_factors

td_financial ==
    /\ td_finish("financial", financial_indicators_agent(td))
    /\ UNCHANGED demo_risk_factors

td_real_estate ==
    /\ td_finish("real_estate", real_estate_history_agent(td))
    /\ UNCHANGED demo_risk_factors

\* the node appends to the list it got from the table, when it got one there
td_risk ==
    /\ td_finish("risk",
                 risk_assessment_agent(
                     td, risk_factors_of(td.company_name, demo_risk_factors)))
    /\ demo_risk_factors' =
          IF InDemoData(td.company_name)
          THEN [demo_risk_factors EXCEPT ![td.company_name] = risk_factors_after(td, @)]
          ELSE demo_risk_factors

td_score ==
    /\ td_finish("score", tenant_scoring_agent(td))
    /\ UNCHANGED demo_risk_factors

td_report ==
    /\ td_finish("report", report_generator_agent(td))
    /\ UNCHANGED demo_risk_factors

NextNode ==
    \/ td_identify
    \/ td_online
    \/ td_verify
    \/ td_financial
    \/ td_real_estate
    \/ td_risk
    \/ td_score
    \/ td_report

NextDemo ==
    \/ \E company_name \in DemoInputs, location \in Locations :
          td_invoke(company_name, location)
    \/ NextNode

\* C11: running the workflow never changes the module-level table: the
\* risk_factors list DEMO_COMPANY_DATA holds for a company is, after any
\* number of runs, the list it held when the module was loaded.
C11_TableUnchanged == demo_risk_factors = DEMO_risk_factors

\* the last run has ended: its risk node took the list of a company of the
\* table, a list with entries, and gave it back as negative_news
C11_Witness ==
    /\ td_runs = MaxRuns
    /\ td_node = "END"
    /\ InDemoData(td.company_name)
    /\ td.negative_news = DEMO_risk_factors[td.company_name]
    /\ td.negative_news # <<>>

\* C18: every run of the tenant demo workflow executes identify, online,
\* verify, financial, real_estate, risk, score and report once each, in that
\* order, and then reaches END, whether the company is in the table or not.
C18_EightNodesInOrder ==
    /\ [](/\ Len(td_trace) <= Len(demo_order)
          /\ td_trace = SubSeq(demo_order, 1, Len(td_trace))
          /\ (td_node = "END" => td_trace = demo_order))
    /\ [](td_node = "identify" => <>(td_node = "END"))

\* a run for a company the table does not hold has ended
C18_Witness ==
    /\ td_node = "END"
    /\ ~InDemoData(td.company_name)
    /\ td_trace = demo_order
    /\ td.executive_summary # <<>>

\* ========= Part V: src/faropoint_tenant_research.py, the live workflow ===
\* The agents search the web and match the text found against patterns.  A
\* text found is kept as what the patterns match in it; a search or an LLM
\* call can raise, which is None.  Scores are in thousandths as in Part IV.
\* messages is the list as the agents extend it; the report text, the
\* queries used, business_type and lease_history are left out of the record.

\* initial_state of __main__ (the first of test_companies)
live_initial_state ==
    [company_name |-> "Blue Bottle Coffee",
     location |-> "Oakland CA",
     website_url |-> None,
     social_media_profiles |-> {},
     review_sentiment |-> 500,
     years_in_business |-> None,
     is_verified |-> FALSE,
     estimated_revenue |-> None,
     employee_count |-> None,
     growth_indicators |-> <<>>,
     current_locations |-> {},
     space_requirements |-> None,
     litigation_history |-> <<>>,
     bankruptcy_flags |-> FALSE,
     negative_news |-> <<>>,
     risk_score |-> 500,
     stability_score |-> 0,
     growth_potential |-> 0,
     overall_tenant_score |-> 0,
     recommendation |-> "Not Recommended",
     executive_summary |-> <<>>,
     messages |-> <<>>,
     data_sources |-> <<>>]

\* what a search for the company can return, and what the LLM call after it
\* does: [urls, llm_ok]
IdentifierFinds ==
    {None} \cup {Some([urls |-> u, llm_ok |-> k]) :
                    u \in {<<>>, <<"https://bluebottlecoffee.com">>}, k \in BOOLEAN}

live_company_identifier_agent(st, found) ==
    IF found = None
    THEN [st EXCEPT !.messages = Append(@, "Error in initial search")]
    ELSE IF ~found[1].llm_ok
    THEN [st EXCEPT !.data_sources = Append(@, "DuckDuckGo Search"),
                    !.messages = Append(@, "Error in initial search")]
    ELSE IF Len(found[1].urls) > 0
    THEN [st EXCEPT !.data_sources = Append(@, "DuckDuckGo Search"),
                    !.website_url = Some(found[1].urls[1]),
                    !.messages = @ \o <<"Initial search completed", "Found website">>]
    ELSE [st EXCEPT !.data_sources = Append(@, "DuckDuckGo Search"),
                    !.messages = Append(@, "Initial search completed")]

\* social: the platforms matched in the first text; reviews: None when the
\* second search or the LLM call raises, else the sentiment word in the text
\* ("" when it holds neither)
OnlineFinds ==
    {None} \cup {Some([social |-> p, reviews |-> r]) :
                    p \in {{}, {"linkedin", "instagram"}},
                    r \in {None, Some("positive"), Some("negative"), Some("")}}

live_online_presence_analyzer(st, found) ==
    IF found = None
    THEN [st EXCEPT !.messages = Append(@, "Error analyzing online presence"),
                    !.review_sentiment = 500]
    ELSE LET a == [st EXCEPT !.social_media_profiles = found[1].social,
                             !.messages = IF found[1].social # {}
                                          THEN Append(@, "Found social media profiles")
                                          ELSE @]
         IN  IF found[1].reviews = None
             THEN [a EXCEPT !.messages = Append(@, "Error analyzing online presence"),
                            !.review_sentiment = 500]
             ELSE [a EXCEPT !.review_sentiment =
                                CASE found[1].reviews[1] = "positive" -> 700
                                  [] found[1].reviews[1] = "negative" -> 300
                                  [] OTHER -> 500,
                            !.messages = Append(@, "Review sentiment score"),
                            !.data_sources = Append(@, "Online Reviews")]

\* registered: the text holds 'registered', 'incorporated' or 'established';
\* founded: the four digits after the first of the year patterns that
\* matches, any four digits the text holds there
VerificationFinds ==
    {None} \cup {Some([registered |-> g, founded |-> y]) :
                    g \in BOOLEAN, y \in {None, Some(2003), Some(2030)}}

live_business_verification_agent(st, found, year) ==
    IF found = None
    THEN [st EXCEPT !.messages = Append(@, "Error in business verification"),
                    !.is_verified = FALSE]
    ELSE [st EXCEPT !.is_verified = found[1].registered,
                    !.years_in_business =
                        IF found[1].founded = None THEN @
                        ELSE Some(year - found[1].founded[1]),
                    !.messages =
                        @ \o (IF found[1].registered
                              THEN <<"Business registration verified">>
                              ELSE <<"Could not verify business registration">>)
                          \o (IF found[1].founded = None THEN <<>>
                              ELSE <<"Years in business">>),
                    !.data_sources = Append(@, "Business Registration Search")]

\* revenue, employees: the first match of the patterns, if any; growth: the
\* growth keywords the text holds
FinancialFinds ==
    {None} \cup {Some([revenue |-> v, employees |-> e, growth |-> g]) :
                    v \in {None, Some("120")}, e \in {None, Some("40")},
                    g \in {<<>>, <<"expanding", "hiring">>}}

live_financial_indicators_agent(st, found) ==
    IF found = None
    THEN [st EXCEPT !.messages = Append(@, "Error gathering financial indicators")]
    ELSE [st EXCEPT !.estimated_revenue = IF found[1].revenue = None THEN @
                                          ELSE found[1].revenue,
                    !.employee_count = IF found[1].employees = None THEN @
                                       ELSE found[1].employees,
                    !.growth_indicators = found[1].growth,
                    !.messages =
                        @ \o (IF found[1].revenue = None THEN <<>>
                              ELSE <<"Estimated revenue found">>)
                          \o (IF found[1].employees = None THEN <<>>
                              ELSE <<"Employee count">>)
                          \o (IF Len(found[1].growth) = 0 THEN <<>>
                              ELSE <<"Growth indicators">>),
                    !.data_sources = Append(@, "Financial Indicators Search")]

\* addresses: the distinct ones among the first three matched; space: the
\* first match of the space patterns; lease: whether the second search
\* returns (it raises otherwise)
RealEstateFinds ==
    {None} \cup {Some([addresses |-> a, space |-> p, lease |-> l]) :
                    a \in {{}, {"300 Webster St", "1 Ferry Building Way"}},
                    p \in {None, Some("2,500")},
                    l \in BOOLEAN}

live_real_estate_history_agent(st, found) ==
    IF found = None
    THEN [st EXCEPT !.messages = Append(@, "Error researching real estate history")]
    ELSE LET a == [st EXCEPT !.current_locations =
                                 IF found[1].addresses = {} THEN @ ELSE found[1].addresses,
                             !.space_requirements =
                                 IF found[1].space = None THEN @ ELSE found[1].space,
                             !.messages =
                                 @ \o (IF found[1].addresses = {} THEN <<>>
                                       ELSE <<"Found location(s)">>)
                                   \o (IF found[1].space = None THEN <<>>
                                       ELSE <<"Space requirement indicator">>)]
         IN  IF ~found[1].lease
             THEN [a EXCEPT !.messages =
                                Append(@, "Error researching real estate history")]
             ELSE [a EXCEPT !.data_sources = Append(@, "Real Estate History Search")]

\* litigation: the litigation keywords the first text holds; bankruptcy:
\* None when the second search raises, else whether its text holds a
\* bankruptcy keyword; negative: None when the third search raises, else
\* the negative keywords its text holds
RiskFinds ==
    {None} \cup {Some([litigation |-> g, bankruptcy |-> b, negative |-> n]) :
                    g \in {<<>>, <<"lawsuit">>},
                    b \in {None, Some(TRUE), Some(FALSE)},
                    n \in {None, Some(<<>>), Some(<<"fine", "complaint">>)}}

live_risk_assessment_agent(st, found) ==
    IF found = None
    THEN [st EXCEPT !.messages = Append(@, "Error in risk assessment"),
                    !.risk_score = 500]
    ELSE LET a == [st EXCEPT !.litigation_history =
                                 IF Len(found[1].litigation) > 0
                                 THEN Append(@, "Potential litigation found") ELSE @,
                             !.messages =
                                 IF Len(found[1].litigation) > 0
                                 THEN Append(@, "Litigation indicators detected") ELSE @]
         IN  IF found[1].bankruptcy = None
             THEN [a EXCEPT !.messages = Append(@, "Error in risk assessment"),
                            !.risk_score = 500]
             ELSE LET b == [a EXCEPT !.bankruptcy_flags = found[1].bankruptcy[1],
                                     !.messages =
                                         IF found[1].bankruptcy[1]
                                         THEN Append(@, "Bankruptcy indicators detected")
                                         ELSE @]
                  IN  IF found[1].negative = None
                      THEN [b EXCEPT !.messages = Append(@, "Error in risk assessment"),
                                     !.risk_score = 500]
                      ELSE LET news == IF Len(found[1].negative[1]) > 0
                                       THEN found[1].negative[1] ELSE b.negative_news
                               \* risk_factors, in halves
                               risk_factors ==
                                   (IF Len(b.litigation_history) > 0 THEN 4 ELSE 0)
                                   + (IF b.bankruptcy_flags THEN 6 ELSE 0)
                                   + Len(news)
                                   + (IF ~b.is_verified THEN 2 ELSE 0)
                           IN  [b EXCEPT !.negative_news = news,
                                         !.messages =
                                             @ \o (IF Len(found[1].negative[1]) > 0
                                                   THEN <<"Negative news indicators">>
                                                   ELSE <<>>)
                                               \o <<"Risk score calculated">>,
                                         !.risk_score = Min(risk_factors * 50, 1000),
                                         !.data_sources =
                                             Append(@, "Risk Assessment Search")]

\* state.get('years_in_business', 0) > 3 with the key present and None:
\* the comparison raises TypeError
live_scoring_raises(st) == st.years_in_business = None

\* for a state with years_in_business set
live_tenant_scoring_agent(st) ==
    LET years == st.years_in_business[1]
        stability == Min(years * 30, 300)
                     + (IF st.is_verified THEN 200 ELSE 0)
                     + Cardinality(st.social_media_profiles) * 50
                     + (IF ~st.bankruptcy_flags THEN 300 ELSE 0)
        growth == Len(st.growth_indicators) * 80
                  + (Max(0, (st.review_sentiment - 500) * 2) * 3) \div 10
                  + (IF st.employee_count # None THEN 300 ELSE 0)
        overall == stability * 30 + growth * 20 + st.review_sentiment * 20
                   + (1000 - st.risk_score) * 30
    IN  [st EXCEPT !.stability_score = stability,
                   !.growth_potential = growth,
                   !.overall_tenant_score = overall,
                   !.recommendation = recommendation_of(overall),
                   !.messages = @ \o <<"Overall tenant score", "Recommendation">>]

live_report_generator_agent(st) ==
    [st EXCEPT !.executive_summary =
                   <<"TENANT EVALUATION REPORT", st.company_name, st.recommendation>>,
               !.messages = Append(@, "Report generation complete")]

\* create_tenant_research_graph of the live workflow
live_successor(node) ==
    CASE node = "company_identifier" -> "online_presence"
      [] node = "online_presence" -> "business_verification"
      [] node = "business_verification" -> "financial_indicators"
      [] node = "financial_indicators" -> "real_estate_history"
      [] node = "real_estate_history" -> "risk_assessment"
      [] node = "risk_assessment" -> "tenant_scoring"
      [] node = "tenant_scoring" -> "report_generator"
      [] node = "report_generator" -> "END"

\* no run of the live workflow
IdleLive ==
    /\ lv = live_initial_state
    /\ lv_node = "idle"
    /\ lv_trace = <<>>
    /\ lv_appended = <<>>

\* graph.invoke(initial_state)
InitLive ==
    /\ lv = live_initial_state
    /\ lv_node = "company_identifier"
    /\ lv_trace = <<>>
    /\ lv_appended = <<>>

\* the node `node` returns st
lv_finish(node, st) ==
    /\ lv' = st
    /\ lv_node' = live_successor(node)
    /\ lv_trace' = Append(lv_trace, node)
    /\ lv_appended' = SubSeq(st.messages, Len(lv.messages) + 1, Len(st.messages))
    /\ UNCHANGED notLive

lv_company_identifier ==
    /\ lv_node = "company_identifier"
    /\ \E found \in IdentifierFinds :
          lv_finish(lv_node, live_company_identifier_agent(lv, found))

lv_online_presence ==
    /\ lv_node = "online_presence"
    /\ \E found \in OnlineFinds :
          lv_finish(lv_node, live_online_presence_analyzer(lv, found))

lv_business_verification ==
    /\ lv_node = "business_verification"
    /\ \E found \in VerificationFinds, year \in CurrentYears :
          lv_finish(lv_node, live_business_verification_agent(lv, found, year))

lv_financial_indicators ==
    /\ lv_node = "financial_indicators"
    /\ \E found \in FinancialFinds :
          lv_finish(lv_node, live_financial_indicators_agent(lv, found))

lv_real_estate_history ==
    /\ lv_node = "real_estate_history"
    /\ \E found \in RealEstateFinds :
          lv_finish(lv_node, live_real_estate_history_agent(lv, found))

lv_risk_assessment ==
    /\ lv_node = "risk_assessment"
    /\ \E found \in RiskFinds :
          lv_finish(lv_node, live_risk_assessment_agent(lv, found))

\* the TypeError is not caught: graph.invoke raises
lv_tenant_scoring ==
    /\ lv_node = "tenant_scoring"
    /\ IF live_scoring_raises(lv)
       THEN /\ lv_node' = "raised"
            /\ lv_trace' = Append(lv_trace, lv_node)
            /\ lv_appended' = <<>>
            /\ UNCHANGED <<lv, notLive>>
       ELSE lv_finish(lv_node, live_tenant_scoring_agent(lv))

lv_report_generator ==
    /\ lv_node = "report_generator"
    /\ lv_finish(lv_node, live_report_generator_agent(lv))

NextLive ==
    \/ lv_company_identifier
    \/ lv_online_presence
    \/ lv_business_verification
    \/ lv_financial_indicators
    \/ lv_real_estate_history
    \/ lv_risk_assessment
    \/ lv_tenant_scoring
    \/ lv_report_generator

\* ------------------------------------------------------ Part V: claims

\* C10: every execution of an agent node appends at least one status message
\* to the record's log, whatever data the agent found or failed to find.
C10_EveryNodeReports ==
    (lv_trace # <<>> /\ lv_node # "raised") => Len(lv_appended) >= 1

\* C16: in the live workflow, whatever the searches return, once
\* tenant_scoring_agent has run risk_score, stability_score and
\* growth_potential lie between 0 and 1 and overall_tenant_score between 0
\* and 100.
C16_ScoresInRange ==
    (\E n \in 1..Len(lv_trace) : lv_trace[n] = "tenant_scoring") =>
        /\ 0 <= lv.risk_score /\ lv.risk_score <= 1000
        /\ 0 <= lv.stability_score /\ lv.stability_score <= 1000
        /\ 0 <= lv.growth_potential /\ lv.growth_potential <= 1000
        /\ 0 <= lv.overall_tenant_score /\ lv.overall_tenant_score <= 100000

\* the registration text named a year after this one: scoring ran and the
\* stability score is below 0
C16_Failing ==
    /\ lv_node = "END"
    /\ lv.years_in_business # None
    /\ lv.years_in_business[1] < 0
    /\ lv.stability_score < 0

\* C17: the live workflow always runs all eight agents and reaches END with
\* one of the four recommendations and an executive summary, whatever the
\* searches return or raise, a years_in_business of None included: no run
\* raises, and a run at END has run the eight agents.
C17_AlwaysCompletes ==
    /\ lv_node # "raised"
    /\ lv_node = "END" =>
          /\ Len(lv_trace) = 8
          /\ lv.recommendation \in {"Highly Recommended", "Recommended",
                                    "Proceed with Caution", "Not Recommended"}
          /\ lv.executive_summary # <<>>

\* no year was found in the registration text: tenant_scoring_agent raised
\* and the run ended after the seven agents before it
C17_Failing ==
    /\ lv_node = "raised"
    /\ lv.years_in_business = None
    /\ Len(lv_trace) = 7
    /\ lv.executive_summary = <<>>

\* the message each agent's except clause appends
live_warnings ==
    {"Error in initial search", "Error analyzing online presence",
     "Error in business verification", "Error gathering financial indicators",
     "Error researching real estate history", "Error in risk assessment"}

\* the field each except clause assigns, and the value it assigns
live_defaults(node) ==
    CASE node = "online_presence" -> {<<"review_sentiment", 500>>}
      [] node = "business_verification" -> {<<"is_verified", FALSE>>}
      [] node = "risk_assessment" -> {<<"risk_score", 500>>}
      [] OTHER -> {}

\* the fields the research fills in: the record without its two logs
live_research_fields == DOMAIN live_initial_state \ {"messages", "data_sources"}

\* C26: when a search raises inside an agent of the live workflow, the agent
\* returns the state with exactly one message appended, the warning; its
\* default is applied where it has one (review_sentiment 0.5, is_verified
\* False, risk_score 0.5), and every other research field is as it was when
\* the agent started.
C26_RaiseLeavesFields ==
    [][(lv_appended' # <<>> /\ Last(lv_appended') \in live_warnings) =>
          LET node == Last(lv_trace')
              defaulted == {d[1] : d \in live_defaults(node)}
          IN  /\ lv_node' = live_successor(node)
              /\ lv_appended' = <<Last(lv_appended')>>
              /\ \A d \in live_defaults(node) : lv'[d[1]] = d[2]
              /\ \A field \in live_research_fields \ defaulted :
                    lv'[field] = lv[field]]_liveVars

\* risk_assessment_agent found litigation and bankruptcy keywords and its
\* third search raised: three messages were appended, bankruptcy_flags and
\* litigation_history are changed, and risk_score is the default
C26_Failing ==
    /\ lv_node = "tenant_scoring"
    /\ lv_appended = <<"Litigation indicators detected",
                       "Bankruptcy indicators detected",
                       "Error in risk assessment">>
    /\ lv.bankruptcy_flags
    /\ lv.litigation_history # <<>>
    /\ lv.risk_score = 500

\* graph.invoke of the demo workflow has been called once, for any company
InitDemoRun ==
    /\ \E company_name \in DemoInputs, location \in Locations :
          td = tenant_initial_state(company_name, location)
    /\ td_node = "identify"
    /\ td_trace = <<>>
    /\ td_runs = 1
    /\ demo_risk_factors = DEMO_risk_factors

\* one run of one of the two tenant workflows: the live one or the demo
NextTenant == NextLive \/ NextNode

\* the recommendation the thresholds 75, 60 and 40 give a score
C19_ByThresholds(score) ==
    CASE score >= 75000 -> "Highly Recommended"
      [] score < 75000 /\ score >= 60000 -> "Recommended"
      [] score < 60000 /\ score >= 40000 -> "Proceed with Caution"
      [] score < 40000 -> "Not Recommended"

\* C19: at END of either tenant workflow the recommendation is the one the
\* thresholds 75, 60 and 40 give the overall_tenant_score: the 'Not
\* Recommended' of the initial state is never left standing beside a score of
\* 40 or more.
C19_RecommendationByScore ==
    /\ td_node = "END" =>
          td.recommendation = C19_ByThresholds(td.overall_tenant_score)
    /\ lv_node = "END" =>
          lv.recommendation = C19_ByThresholds(lv.overall_tenant_score)

\* a live run has ended with a score between 70 and 75 and the
\* recommendation that replaced the initial one
C19_Witness ==
    /\ lv_node = "END"
    /\ lv.overall_tenant_score >= 70000
    /\ lv.overall_tenant_score < 75000
    /\ lv.recommendation = "Recommended"

\* ======================= Part VI: src/customer_support_bot.py, the graph ===
\* A customer message is kept as the set of the words in it that matter, in
\* the case the customer typed them; a listed word is in the message when the
\* lower-cased message holds it.  metadata is left out of the record,
\* final_response is kept as the sequence of its parts and the case number
\* drawn for it is left out.  An entry of conversation_history is kept as its
\* fixed text and the value written into it.

Vocabulary == {"refund", "broken", "help", "angry", "worst", "great",
               "Legal", "MANAGER", "manager", "order"}

\* str.lower on the words of the vocabulary
lower(w) ==
    CASE w = "Legal" -> "legal"
      [] w = "MANAGER" -> "manager"
      [] OTHER -> w

\* word in state['customer_message'].lower()
in_message_lower(word, customer_message) ==
    \E w \in customer_message : lower(w) = word

any_in(words, customer_message) ==
    \E word \in words : in_message_lower(word, customer_message)

support_initial_state(message) ==
    [customer_message |-> message,
     intent |-> "",
     sentiment |-> "",
     category |-> "",
     priority |-> "",
     knowledge_base_results |-> <<>>,
     suggested_responses |-> <<>>,
     escalation_needed |-> FALSE,
     final_response |-> <<>>,
     conversation_history |-> <<>>]

intent_classifier(st) ==
    LET m == st.customer_message
        intent ==
            IF any_in({"refund", "money back", "return"}, m) THEN "refund_request"
            ELSE IF any_in({"broken", "not working", "error", "bug"}, m) THEN "technical_issue"
            ELSE IF any_in({"how to", "help", "guide"}, m) THEN "how_to_question"
            ELSE IF any_in({"angry", "frustrated", "terrible"}, m) THEN "complaint"
            ELSE "general_inquiry"
    IN  [st EXCEPT !.intent = intent,
                   !.conversation_history = Append(@, <<"Intent classified as", intent>>)]

sentiment_analyzer(st) ==
    LET m == st.customer_message
        negative_words == {"angry", "frustrated", "terrible", "awful", "hate", "worst"}
        positive_words == {"great", "excellent", "love", "wonderful", "amazing", "best"}
        neg_count == Cardinality({word \in negative_words : in_message_lower(word, m)})
        pos_count == Cardinality({word \in positive_words : in_message_lower(word, m)})
        sentiment == IF neg_count > pos_count THEN "negative"
                     ELSE IF pos_count > neg_count THEN "positive"
                     ELSE "neutral"
    IN  [st EXCEPT !.sentiment = sentiment,
                   !.conversation_history = Append(@, <<"Sentiment detected", sentiment>>)]

priority_assigner(st) ==
    LET acted == {"complaint", "refund_request", "technical_issue"}
        priority ==
            IF st.intent \in acted /\ st.sentiment = "negative" THEN "high"
            ELSE IF st.intent \in acted /\ st.sentiment = "neutral" THEN "medium"
            ELSE "low"
    IN  [st EXCEPT !.priority = priority,
                   !.conversation_history = Append(@, <<"Priority set to", priority>>)]

knowledge_base_searcher(st) ==
    LET results ==
            CASE st.intent = "refund_request" ->
                   <<"Refunds are processed within 5-7 business days",
                     "You can request a refund through your account dashboard",
                     "Refund policy: Items must be returned within 30 days">>
              [] st.intent = "technical_issue" ->
                   <<"Try restarting the application",
                     "Clear your cache and cookies",
                     "Check if you're using the latest version">>
              [] st.intent = "how_to_question" ->
                   <<"Visit our help center at help.example.com",
                     "Check our video tutorials on YouTube",
                     "Download our user guide PDF">>
              [] OTHER -> <<"Please contact our support team">>
    IN  [st EXCEPT !.knowledge_base_results = results,
                   !.conversation_history = Append(@, <<"Found KB articles", Len(results)>>)]

response_generator(st) ==
    LET opener == IF st.sentiment = "negative"
                  THEN "I understand your frustration, and I'm here to help."
                  ELSE IF st.sentiment = "positive"
                  THEN "Thank you for reaching out!"
                  ELSE "Thank you for contacting us."
        next_steps == IF st.priority = "high"
                      THEN <<"I've escalated this to our specialist team who will contact you within 24 hours.">>
                      ELSE <<>>
        responses == <<opener>> \o st.knowledge_base_results \o next_steps
    IN  [st EXCEPT !.suggested_responses = responses,
                   !.conversation_history =
                       Append(@, <<"Generated response options", Len(responses)>>)]

escalation_checker(st) ==
    LET escalate ==
            IF st.priority = "high" THEN TRUE
            ELSE IF st.sentiment = "negative" /\ st.intent = "complaint" THEN TRUE
            ELSE IF in_message_lower("legal", st.customer_message) THEN TRUE
            ELSE in_message_lower("manager", st.customer_message)
    IN  [st EXCEPT !.escalation_needed = escalate,
                   !.conversation_history = Append(@, <<"Escalation needed", escalate>>)]

response_optimizer(st) ==
    LET kb == st.knowledge_base_results
        found == IF Len(kb) > 0
                 THEN <<"Here's what I found that might help:">>
                      \o SubSeq(kb, 1, Min(2, Len(kb)))
                 ELSE <<>>
        notice == IF st.escalation_needed
                  THEN <<"I've escalated your case to a specialist.", "Case ID: #">>
                  ELSE <<>>
    IN  [st EXCEPT !.final_response =
                       <<st.suggested_responses[1]>> \o found \o notice
                       \o <<"Is there anything else I can help you with?">>,
                   !.conversation_history = Append(@, <<"Response optimized and ready">>)]

\* quality_checker writes metadata and conversation_history only
quality_checker(st) ==
    [st EXCEPT !.conversation_history = Append(@, <<"Quality checks passed">>)]

\* a router that takes every run down the normal flow
route_by_priority_never(st) == "normal_flow"

route_by_priority(st) ==
    IF st.priority = "high" THEN "high_priority" ELSE "normal_flow"

\* create_support_graph: the edges, st being what the node returned
sb_successor(node, st) ==
    CASE node = "intent_classifier" -> "sentiment_analyzer"
      [] node = "sentiment_analyzer" -> "priority_assigner"
      [] node = "priority_assigner" ->
           IF route_by_priority(st) = "high_priority"
           THEN "escalation_checker" ELSE "kb_searcher"
      [] node = "escalation_checker" -> "kb_searcher"
      [] node = "kb_searcher" -> "response_generator"
      [] node = "response_generator" -> "response_optimizer"
      [] node = "response_optimizer" -> "quality_checker"
      [] node = "quality_checker" -> "END"

\* create_support_graph: the function of each node
sb_apply(node, st) ==
    CASE node = "intent_classifier" -> intent_classifier(st)
      [] node = "sentiment_analyzer" -> sentiment_analyzer(st)
      [] node = "priority_assigner" -> priority_assigner(st)
      [] node = "escalation_checker" -> escalation_checker(st)
      [] node = "kb_searcher" -> knowledge_base_searcher(st)
      [] node = "response_generator" -> response_generator(st)
      [] node = "response_optimizer" -> response_optimizer(st)
      [] node = "quality_checker" -> quality_checker(st)

sb_nodes == {"intent_classifier", "sentiment_analyzer", "priority_assigner",
             "escalation_checker", "kb_searcher", "response_generator",
             "response_optimizer", "quality_checker"}

\* no run of the support graph
IdleSupport ==
    /\ sb = support_initial_state({})
    /\ sb_node = "idle"
    /\ sb_trace = <<>>

\* graph.invoke(initial_state) for a message
InitSupport ==
    /\ \E message \in SUBSET Vocabulary : sb = support_initial_state(message)
    /\ sb_node = "intent_classifier"
    /\ sb_trace = <<>>

\* conversation_history is declared Annotated[List[str], operator.add]: the
\* graph keeps for the key the list operator.add(kept, returned) gives.  The
\* node was handed the kept list itself, appended to it in place and returned
\* it in the state, so kept and returned are the one list of returned
operator_add_to_kept(returned) ==
    [returned EXCEPT !.conversation_history = @ \o @]

\* the graph runs the node it is at, applies what the node returned and
\* follows the node's edge
sb_step(node) ==
    /\ sb_node = node
    /\ sb' = operator_add_to_kept(sb_apply(node, sb))
    /\ sb_node' = sb_successor(node, sb')
    /\ sb_trace' = Append(sb_trace, node)
    /\ UNCHANGED notSupport

NextSupport == \E node \in sb_nodes : sb_step(node)

\* the nodes a run executes, given the priority its state holds
sb_expected(priority) ==
    <<"intent_classifier", "sentiment_analyzer", "priority_assigner">>
    \o (IF priority = "high" THEN <<"escalation_checker">> ELSE <<>>)
    \o <<"kb_searcher", "response_generator", "response_optimizer", "quality_checker">>

\* C12: every support run executes intent_classifier, sentiment_analyzer,
\* priority_assigner, then escalation_checker exactly when the priority is
\* high, then kb_searcher, response_generator, response_optimizer and
\* quality_checker, each at most once and in that order, and reaches END.
C12_SupportOrder ==
    /\ [](/\ Len(sb_trace) <= Len(sb_expected(sb.priority))
          /\ sb_trace = SubSeq(sb_expected(sb.priority), 1, Len(sb_trace))
          /\ (sb_node = "END" => sb_trace = sb_expected(sb.priority)))
    /\ <>(sb_node = "END")

\* a high priority run has ended, the escalation checker fourth of its eight
C12_Witness ==
    /\ sb_node = "END"
    /\ sb.priority = "high"
    /\ Len(sb_trace) = 8
    /\ sb_trace[4] = "escalation_checker"

\* C13: every run for a message holding 'legal' or 'manager' in any case,
\* and every run for a complaint of negative sentiment, ends with
\* escalation_needed true.
C13_EscalationRules ==
    (/\ sb_node = "END"
     /\ \/ in_message_lower("legal", sb.customer_message)
        \/ in_message_lower("manager", sb.customer_message)
        \/ (sb.intent = "complaint" /\ sb.sentiment = "negative"))
    => sb.escalation_needed

\* a run for a message asking for a manager ended without escalation
C13_Failing ==
    /\ sb_node = "END"
    /\ in_message_lower("manager", sb.customer_message)
    /\ ~sb.escalation_needed

\* the fixed text of the entry a node appends to conversation_history
sb_entry_text(node) ==
    CASE node = "intent_classifier" -> "Intent classified as"
      [] node = "sentiment_analyzer" -> "Sentiment detected"
      [] node = "priority_assigner" -> "Priority set to"
      [] node = "escalation_checker" -> "Escalation needed"
      [] node = "kb_searcher" -> "Found KB articles"
      [] node = "response_generator" -> "Generated response options"
      [] node = "response_optimizer" -> "Response optimized and ready"
      [] node = "quality_checker" -> "Quality checks passed"

\* C22: at the end of a run the accumulated log holds exactly the entries the
\* executed nodes appended, each once and in execution order: a support run
\* without escalation ends with 7 entries in conversation_history.
C22_LogOncePerNode ==
    sb_node = "END" =>
        /\ Len(sb.conversation_history) = Len(sb_trace)
        /\ \A n \in 1..Len(sb_trace) :
              sb.conversation_history[n][1] = sb_entry_text(sb_trace[n])

\* a run without escalation has ended after seven nodes with 254 entries in
\* conversation_history, the first node's entry the first two of them
C22_Failing ==
    /\ sb_node = "END"
    /\ Len(sb_trace) = 7
    /\ Len(sb.conversation_history) = 254
    /\ sb.conversation_history[1][1] = "Intent classified as"
    /\ sb.conversation_history[2][1] = "Intent classified as"

\* ================= Part VII: src/company_research_system.py, the graph ===
\* The graph fans out: a node with several outgoing edges starts all their
\* targets in the next step, the nodes of a step run concurrently on the state
\* the step started with, and what they return is applied when all have
\* returned.  Every node of this file returns the whole state, and a key
\* without a reducer can receive only one value per step: a step in which
\* two nodes return raises InvalidUpdateError instead of applying anything.
\* Of the state the record keeps the keys the nodes and routers read; a dict
\* is kept as the set of its keys and the messages log is left out.

SystemInputs == {"Apple Inc.", "Tesla", "Local Startup XYZ"}
Depths == {"quick", "standard", "deep"}

\* initial_state of __main__
cs_initial_state(company_name, research_depth) ==
    [company_name |-> company_name,
     ticker |-> "",
     research_depth |-> research_depth,
     financial_metrics |-> {},
     competitors |-> <<>>,
     recent_news |-> <<>>,
     leadership_info |-> {},
     tech_stack |-> <<>>,
     esg_score |-> {},
     risk_factors |-> <<>>,
     confidence_score |-> Ratio(0, 1),
     errors |-> <<>>,
     data_sources |-> <<>>]

\* what the function of a node returns, handed st
cs_apply(node, st) ==
    CASE node = "company_identifier" ->
           [st EXCEPT !.ticker = st.ticker,
                      !.data_sources = Append(@, "Company Database")]
      [] node = "financial_analyst" ->
           [st EXCEPT !.financial_metrics =
                          {"revenue", "revenue_growth", "profit_margin",
                           "debt_to_equity", "current_ratio", "pe_ratio"},
                      !.data_sources = Append(@, "Financial APIs")]
      [] node = "market_analyst" ->
           [st EXCEPT !.competitors = <<"Competitor A", "Competitor B", "Competitor C">>,
                      !.data_sources = Append(@, "Industry Reports")]
      [] node = "news_sentiment_analyst" ->
           [st EXCEPT !.recent_news = <<"positive", "positive", "neutral">>,
                      !.data_sources = Append(@, "News APIs")]
      [] node = "leadership_culture_analyst" ->
           [st EXCEPT !.leadership_info = {"ceo", "leadership_stability", "glassdoor_rating"},
                      !.data_sources = Append(@, "Professional Networks")]
      [] node = "technology_innovation_analyst" ->
           [st EXCEPT !.tech_stack = <<"Cloud-native", "AI/ML", "Microservices", "DevOps">>,
                      !.data_sources = Append(@, "Patent Databases")]
      [] node = "esg_risk_analyst" ->
           [st EXCEPT !.esg_score = {"environmental", "social", "governance"},
                      !.risk_factors = <<"Regulatory changes", "Market competition",
                                         "Supply chain dependencies">>,
                      !.data_sources = Append(@, "ESG Databases")]
      [] node = "report_synthesizer" ->
           [st EXCEPT !.confidence_score =
               Ratio(Cardinality({i \in 1..5 :
                        <<st.financial_metrics # {}, st.competitors # <<>>,
                          st.recent_news # <<>>, st.leadership_info # {},
                          st.esg_score # {}>>[i]}), 5)]
      [] node = "quality_validator" ->
           [st EXCEPT !.errors =
               IF st.financial_metrics = {} \/ st.competitors = <<>>
                  \/ st.risk_factors = <<>>
               THEN Append(@, "Missing critical data") ELSE @]

\* the router no edge of the graph uses
determine_research_depth(st) ==
    IF st.research_depth = "quick" THEN "quick_analysis"
    ELSE IF st.research_depth = "deep" THEN "deep_analysis"
    ELSE "standard_analysis"

\* create_company_research_graph: the targets of the edges out of a node, st
\* being the state after the node's step
cs_successors(node, st) ==
    CASE node = "company_identifier" ->
           {"financial_analyst", "market_analyst", "news_sentiment_analyst"}
      [] node = "financial_analyst" -> {"leadership_culture_analyst"}
      [] node = "market_analyst" -> {"technology_innovation_analyst"}
      [] node = "news_sentiment_analyst" -> {"esg_risk_analyst"}
      [] node = "leadership_culture_analyst" -> {"report_synthesizer"}
      [] node = "technology_innovation_analyst" -> {"report_synthesizer"}
      [] node = "esg_risk_analyst" -> {"report_synthesizer"}
      [] node = "report_synthesizer" -> {"quality_validator"}
      [] node = "quality_validator" ->
           IF BelowSevenTenths(st.confidence_score) /\ Len(st.errors) = 0
           THEN {"market_analyst"} ELSE {"END"}

cs_nodes == {"company_identifier", "financial_analyst", "market_analyst",
             "news_sentiment_analyst", "leadership_culture_analyst",
             "technology_innovation_analyst", "esg_risk_analyst",
             "report_synthesizer", "quality_validator"}

\* no run of the system graph
IdleSystem ==
    /\ cs = cs_initial_state("", "standard")
    /\ cs_status = "idle"
    /\ cs_tasks = {}
    /\ cs_done = {}
    /\ cs_trace = <<>>

\* graph.invoke(initial_state): the first step runs the target of START
InitSystem ==
    /\ \E company_name \in SystemInputs, research_depth \in Depths :
          cs = cs_initial_state(company_name, research_depth)
    /\ cs_status = "running"
    /\ cs_tasks = {"company_identifier"}
    /\ cs_done = {}
    /\ cs_trace = <<>>

\* a node of the step under way runs and returns
cs_run(node) ==
    /\ cs_status = "running"
    /\ node \in cs_tasks
    /\ cs_tasks' = cs_tasks \ {node}
    /\ cs_done' = cs_done \cup {node}
    /\ cs_trace' = Append(cs_trace, node)
    /\ UNCHANGED <<cs, cs_status, notSystem>>

\* all nodes of the step have returned: their returns are applied and the
\* next step is planned from their edges
cs_apply_writes ==
    /\ cs_status = "running"
    /\ cs_tasks = {}
    /\ cs_done # {}
    /\ IF Cardinality(cs_done) > 1
       THEN /\ cs_status' = "raised"
            /\ UNCHANGED <<cs, cs_tasks, cs_done>>
       ELSE LET node == CHOOSE n \in cs_done : TRUE
                st == cs_apply(node, cs)
                next == cs_successors(node, st)
            IN  /\ cs' = st
                /\ cs_done' = {}
                /\ cs_tasks' = next \ {"END"}
                /\ cs_status' = IF next = {"END"} THEN "END" ELSE "running"
    /\ UNCHANGED <<cs_trace, notSystem>>

NextSystem ==
    \/ \E node \in cs_nodes : cs_run(node)
    \/ cs_apply_writes

\* the nodes of cs_trace
cs_executed == {cs_trace[n] : n \in 1..Len(cs_trace)}

\* C14: the workflow routes by research_depth: the analyst nodes a run starts
\* after company_identifier are not the ones a run of the same company with
\* another research_depth starts.
C14_RoutesByDepth ==
    (cs_status = "running" /\ "company_identifier" \in cs_executed /\ cs_done = {})
    => \A other \in Depths \ {cs.research_depth} :
          /\ determine_research_depth([cs EXCEPT !.research_depth = other])
                # determine_research_depth(cs)
          /\ cs_successors("company_identifier",
                           [cs EXCEPT !.research_depth = other]) # cs_tasks

\* a quick run starts the three analysts every run starts
C14_Failing ==
    /\ cs.research_depth = "quick"
    /\ cs_status = "running"
    /\ cs_done = {}
    /\ cs_tasks = cs_successors("company_identifier",
                                [cs EXCEPT !.research_depth = "deep"])
    /\ cs_tasks = {"financial_analyst", "market_analyst", "news_sentiment_analyst"}

\* C15: after company_identifier the three branches financial -> leadership,
\* market -> technology and news -> esg all run, and report_synthesizer runs
\* once, after the last node of each of the three branches.
C15_BranchesJoin ==
    /\ <>(/\ {"leadership_culture_analyst", "technology_innovation_analyst",
              "esg_risk_analyst", "report_synthesizer"} \subseteq cs_executed
          /\ Cardinality({n \in 1..Len(cs_trace) :
                             cs_trace[n] = "report_synthesizer"}) = 1)
    /\ []("report_synthesizer" \in cs_executed =>
             {"financial_analyst", "market_analyst", "news_sentiment_analyst",
              "leadership_culture_analyst", "technology_innovation_analyst",
              "esg_risk_analyst"} \subseteq cs_executed)

\* the run has raised after the first node of each branch: no second node
\* and no report_synthesizer has run or will
C15_Failing ==
    /\ cs_status = "raised"
    /\ cs_done = {"financial_analyst", "market_analyst", "news_sentiment_analyst"}
    /\ cs_executed = {"company_identifier"} \cup cs_done

\* the nodes of the step under way whose return holds a value for the key:
\* a node returns the state it was handed, every key of it
cs_writers(key) == {node \in cs_done : key \in DOMAIN cs_apply(node, cs)}

\* C25: the analyst nodes that run in the same step never write the same
\* state field in that step: each field without a reducer (every key of the
\* record) receives at most one value per step.
C25_OneValuePerStep ==
    \A key \in DOMAIN cs : Cardinality(cs_writers(key)) <= 1

\* the three analysts of the step after company_identifier have returned, each
\* with a value for company_name, a key none of them assigns
C25_Failing ==
    /\ cs_tasks = {}
    /\ cs_writers("company_name")
          = {"financial_analyst", "market_analyst", "news_sentiment_analyst"}
    /\ \A node \in cs_done : cs_apply(node, cs).company_name = cs.company_name

vars == <<research_jobs, task, stream, response, cr, cr_node, cr_trace,
          ra, ra_node, ra_trace, lv, lv_node, lv_trace, lv_appended,
          td, td_node, td_trace, td_runs, demo_risk_factors,
          sb, sb_node, sb_trace, cs, cs_status, cs_tasks, cs_done, cs_trace>>

\* no request has reached the API
IdleApi == InitApi

\* the API serving requests, no graph running
Init == InitApi /\ IdleCompany /\ IdleAssistant /\ IdleLive /\ IdleDemo /\ IdleSupport
    /\ IdleSystem

Spec == Init /\ [][NextApi]_vars

\* the event loop runs every ready coroutine and every asyncio.sleep expires
FairSpec ==
    /\ Init
    /\ [][NextRun]_vars
    /\ \A j \in JobIds : WF_vars(run_tenant_research_begin(j))
    /\ \A j \in JobIds : WF_vars(run_tenant_research_resume(j))
    /\ WF_vars(event_generator_poll)
    /\ WF_vars(event_generator_check)

\* runs of the company research demo graph
CompanyInit == IdleApi /\ InitCompany /\ IdleAssistant /\ IdleLive /\ IdleDemo /\ IdleSupport
    /\ IdleSystem

CompanySpec == CompanyInit /\ [][NextCompany]_vars

\* runs of the research assistant graph
AssistantInit == IdleApi /\ IdleCompany /\ InitAssistant /\ IdleLive /\ IdleDemo /\ IdleSupport
    /\ IdleSystem

AssistantSpec == AssistantInit /\ [][NextAssistant]_vars

\* runs of the live tenant research graph
LiveInit == IdleApi /\ IdleCompany /\ IdleAssistant /\ InitLive /\ IdleDemo /\ IdleSupport
    /\ IdleSystem

LiveSpec == LiveInit /\ [][NextLive]_vars

\* runs of the tenant research demo graph, one after another
DemoInit == IdleApi /\ IdleCompany /\ IdleAssistant /\ IdleLive /\ IdleDemo /\ IdleSupport
    /\ IdleSystem

\* graph.invoke runs a started run to its end: every node that can run does
DemoSpec == DemoInit /\ [][NextDemo]_vars /\ WF_vars(NextNode)

\* runs of the customer support graph
SupportInit ==
    IdleApi /\ IdleCompany /\ IdleAssistant /\ IdleLive /\ IdleDemo /\ InitSupport
    /\ IdleSystem

\* graph.invoke runs a started run to its end: every node that can run does
SupportSpec == SupportInit /\ [][NextSupport]_vars /\ WF_vars(NextSupport)

\* runs of the company research system graph
SystemInit ==
    IdleApi /\ IdleCompany /\ IdleAssistant /\ IdleLive /\ IdleDemo /\ IdleSupport
    /\ InitSystem

\* graph.invoke runs every node of a step and then applies what they returned
SystemSpec == SystemInit /\ [][NextSystem]_vars /\ WF_vars(NextSystem)

\* one run of the live tenant workflow or one run of the tenant demo
TenantInit ==
    /\ IdleApi /\ IdleCompany /\ IdleAssistant /\ IdleSupport /\ IdleSystem
    /\ \/ InitLive /\ IdleDemo
       \/ IdleLive /\ InitDemoRun

TenantSpec == TenantInit /\ [][NextTenant]_vars

\* runs of the research assistant graph from any iteration count
AssistantAnyInit ==
    /\ IdleApi /\ IdleCompany /\ InitAssistantAny /\ IdleLive /\ IdleDemo
    /\ IdleSupport /\ IdleSystem

\* graph.invoke runs a started run to its end: every node that can run does
AssistantAnySpec ==
    AssistantAnyInit /\ [][NextAssistant]_vars /\ WF_vars(NextAssistant)

====
